---------------------------- MODULE Spec2Model ----------------------------
(***************************************************************************)
(* A model of microBM/loadsStores.cc of LOMP: the thread team of each      *)
(* measurement protocol (sharing, placement, round trip, line placement,   *)
(* clock offset estimation, visibility), its barriers, its handshake       *)
(* channels and its timestamps.                                            *)
(*                                                                         *)
(* Time.  Every thread t has a position at[t] on one true time axis; the   *)
(* cycle counter of thread t reads at[t] - skew[t] (skew[0] = 0).  A write *)
(* made by thread w at true time T is observed by another thread r no      *)
(* earlier than T + Latency(w, r).  Instructions themselves take no time,  *)
(* except delay() and the operation under test.                            *)
(*                                                                         *)
(* channel.h and stats-timing.h are not among the sources; the channels    *)
(* and the statistic are modelled from the specification.                  *)
(***************************************************************************)
EXTENDS Integers, Sequences, FiniteSets, TLC

(***************************************************************************)
(* Bounds of the model.                                                    *)
(***************************************************************************)
MaxThreads == 3      \* team sizes 2 .. MaxThreads
NumSamples == 2      \* samples per configuration (10000 in the program)
NumTests == 3        \* clock offset trials per peer (5000 in the program)
NumChannels == 2     \* channels in the page (PAGE_SIZE / sizeof(syncOnlyChannel))
MaxLat == 2          \* one-way latencies 1 and MaxLat
MaxSkew == 2         \* clock skews -MaxSkew, 0, MaxSkew

(***************************************************************************)
(* Constants of the program.                                               *)
(***************************************************************************)
innerRepsRoundtrip == 20
innerRepsLine == 10
measurementArraySize == 256
DelayTicks == 5000
MAX_THREADS == 512
LineRuns == 5

VARIABLES
  proto,        \* the protocol the team is running
  caller,       \* who called computeClockOffset: "main" or "visibility"
  nThreads,     \* omp_get_max_threads()
  from,         \* the source ("from") thread
  op,           \* the operation under test: doLoads, doStores or doAtomicIncs
  modified,     \* whether the line is to be in modified state
  opTime,       \* the time the operation under test takes
  allocateInT0, \* whether placement measures arrayForMeasurement
  pc,           \* pc[t]: where thread t is
  cfg,          \* cfg[t]: thread t's outer loop variable (sharing, placement, other, chanIdx)
  smp,          \* smp[t]: thread t's sample loop variable i
  rep,          \* rep[t]: thread t's inner repetition loop variable
  logicalPos,   \* logicalPos[t], -1 before it is computed
  whatIDo,      \* whatIDo[t]
  chan,         \* the channels, by name
  stats,        \* the caller's statistics array
  timer,        \* timer[t]: the start of thread t's running BlockTimer
  at,           \* at[t]: thread t's position in true time
  skew,         \* skew[t]: thread 0's clock minus thread t's clock
  lat,          \* lat[t]: latencies between thread t and the hub
  line,         \* the measured array: who caches it, who modified it
  bl,           \* the broadcast line of the visibility protocol
  threadTimes,  \* threadTimes[logical position]
  clockOffset,  \* offsets[] / clockOffset[]
  reg,          \* thread 0's locals in computeClockOffset
  hist,         \* history of the run (what happened, for the properties)
  mpc,          \* where main is
  argv,         \* the command line
  aligned,      \* whether operator new returned cache-aligned storage
  page,         \* the static page of measureLinePlacement: 0, or allocated
  measureFn,    \* the measurement function main has chosen
  iter,         \* main's loop variable (i at line 754, from at lines 863, 929, 975)
  stdout,       \* what has been written to standard output
  stderr,       \* the diagnostics written to standard error
  status,       \* the exit status of the process, -1 while it runs
  calls         \* the calls of measurement functions that ran their measurement

vars == << proto, caller, nThreads, from, op, modified, opTime, allocateInT0, pc, cfg, smp, rep, logicalPos,
           whatIDo, chan, stats, timer, at, skew, lat, line, bl, threadTimes,
           clockOffset, reg, hist, mpc, argv, aligned, page, measureFn, iter,
           stdout, stderr, status, calls >>

ctl == << pc, cfg, smp, rep >>
proc == << mpc, argv, aligned, page, measureFn, iter, stdout, stderr, status, calls >>
env == << proto, caller, nThreads, from, op, modified, opTime, allocateInT0, skew, lat, proc >>

Threads == 0 .. nThreads - 1

Max(a, b) == IF a >= b THEN a ELSE b

\* Integer division truncating toward zero, as a C++ cast of a double does.
TruncDiv(a, b) == IF a >= 0 THEN a \div b ELSE -((-a) \div b)

RECURSIVE Gcd(_, _)
Gcd(a, b) == IF b = 0 THEN a ELSE Gcd(b, a % b)

(***************************************************************************)
(* The time environment.                                                   *)
(***************************************************************************)
Skews == {-MaxSkew, 0, MaxSkew}
LatValues == {1, MaxLat}
Lats == [out : LatValues, back : LatValues]
NoLat == [out |-> 1, back |-> 1]

\* The thread the others talk to: thread 0 while clock offsets are estimated
\* and in line placement, the source otherwise.
Hub == IF proto \in {"clock", "line"} THEN 0 ELSE from

\* Time for a write of thread w to be seen by thread r.
Latency(w, r) ==
  IF w = r \/ w = -1 THEN 0
  ELSE IF w = Hub THEN lat[r].out ELSE lat[w].back

\* lomp::tsc_tick_count::now() on thread t.
Clock(t) == at[t] - skew[t]

(***************************************************************************)
(* lomp::statistic, modelled from the specification: a sink of samples     *)
(* with addSample, scaleDown and reset.  n samples whose sum is total; the *)
(* reported values are those of the samples divided by div.                *)
(***************************************************************************)
EmptyStat == [n |-> 0, total |-> 0, div |-> 1]

AddSample(s, v) == [s EXCEPT !.n = @ + 1, !.total = @ + v]

ScaleDown(s, d) == [s EXCEPT !.div = @ * d]

\* The mean the statistic reports, as a fraction in lowest terms.
Mean(s) ==
  LET num == s.total
      den == s.n * s.div
      g == Gcd(IF num >= 0 THEN num ELSE -num, den)
  IN  IF den = 0 THEN << 0, 1 >> ELSE << num \div g, den \div g >>

(***************************************************************************)
(* syncOnlyChannel / atomicSyncOnlyChannel / channel<T>, modelled from the *)
(* specification: one flag cell, idle (FALSE) or signaled (TRUE); nRel and *)
(* nCon count the release() and wait() calls that have completed, so that  *)
(* the cumulative count nRel + nCon has the parity of the flag.  t is the  *)
(* true time of the last change of the flag and by the thread that made    *)
(* it; data is the payload of a channel<T>.                                *)
(***************************************************************************)
IdleChan == [flag |-> FALSE, nRel |-> 0, nCon |-> 0, t |-> 0, by |-> -1, data |-> 0]

\* When thread me sees the present state of the flag of channel c.
SeenAt(c, me) == Max(at[me], chan[c].t + Latency(chan[c].by, me))

\* waitFor(required): spin until the flag is as required.
CanWaitFor(c, required) == chan[c].flag = required

\* release(): once the flag is idle, signal.
CanRelease(c) == CanWaitFor(c, FALSE)
Released(c, me) ==
  [chan EXCEPT ![c] = [@ EXCEPT !.flag = TRUE, !.nRel = @ + 1,
                                !.t = SeenAt(c, me), !.by = me]]

\* wait(): once the flag is signaled, consume the signal.
CanWait(c) == CanWaitFor(c, TRUE)
Waited(c, me) ==
  [chan EXCEPT ![c] = [@ EXCEPT !.flag = FALSE, !.nCon = @ + 1,
                                !.t = SeenAt(c, me), !.by = me]]

\* channel<T>::send(v) stores the payload, then releases; recv() waits, then
\* reads the payload.
Stored(c, v) == [chan EXCEPT ![c] = [@ EXCEPT !.data = v]]

(***************************************************************************)
(* #pragma omp barrier: the team leaves a barrier together, once every     *)
(* thread has arrived at one.                                              *)
(***************************************************************************)
AfterBarrier(l) ==
  CASE l = "S_b1" -> "S_flush"
    [] l = "S_b2" -> "S_owner"
    [] l = "S_b3" -> "S_setup"
    [] l = "S_b4" -> "S_timed"
    [] l = "R_b0" -> "R_turn"
    [] l = "R_b1" -> "R_turn"
    [] l = "P_ba" -> "P_alloc"
    [] l = "P_bb" -> "P_turn"
    [] l = "P_b1" -> "P_turn"
    [] l = "C_b1" -> "C_turn"
    [] l = "V_b0" -> "V_cfg"
    [] l = "V_b1" -> "V_phase1"
    [] l = "V_b2" -> "V_phase2"
    [] OTHER -> "done"

IsBarrier(l) ==
  l \in {"S_b1", "S_b2", "S_b3", "S_b4", "R_b0", "R_b1", "P_ba", "P_bb", "P_b1",
         "C_b1", "V_b0", "V_b1", "V_b2"}

BarrierTime == CHOOSE m \in {at[t] : t \in Threads} : \A t \in Threads : at[t] <= m

Barrier ==
  /\ \A t \in Threads : IsBarrier(pc[t])
  /\ pc' = [t \in Threads |-> AfterBarrier(pc[t])]
  /\ at' = [t \in Threads |-> BarrierTime]
  /\ UNCHANGED << env, cfg, smp, rep, logicalPos, whatIDo, chan, stats, timer,
                  line, bl, threadTimes, clockOffset, reg, hist >>

(***************************************************************************)
(* Logical positions and role tables.                                      *)
(***************************************************************************)
\* C++ remainder of me - from, which is negative for me < from.
LogicalPosNoWrap(me) ==
  IF me >= from THEN (me - from) % nThreads ELSE -((from - me) % nThreads)

\* Lines 252 and 541.
LogicalPos(me) == (me + nThreads - from) % nThreads

SharingRoleOwnerFirst(lp, sharing) ==
  IF lp = sharing THEN "setupOwner"
  ELSE IF lp = 0 THEN "active"
  ELSE IF lp < sharing THEN "setup" ELSE "nothing"

SharingRoleNoOwner(lp, sharing) ==
  IF lp = 0 THEN "active"
  ELSE IF lp <= sharing THEN "setup"
  ELSE IF lp = sharing THEN "setupOwner" ELSE "nothing"

\* Lines 254-263.
SharingRole(lp, sharing) ==
  IF lp = 0 THEN "active"
  ELSE IF lp < sharing THEN "setup"
  ELSE IF lp = sharing THEN "setupOwner" ELSE "nothing"

(***************************************************************************)
(* The measured array (arrayForMeasurement / arrayToMeasure) as the caches *)
(* see it: the threads that hold it, and the thread that holds it modified *)
(* (-1: none).                                                             *)
(***************************************************************************)
FlushedLine == [holders |-> {}, modifiedBy |-> -1]

\* flushMeasurementArray by thread me.
Flush(l, me) ==
  [holders |-> l.holders \ {me},
   modifiedBy |-> IF l.modifiedBy = me THEN -1 ELSE l.modifiedBy]

\* doLoads by thread me.
DoLoads(l, me) == [holders |-> l.holders \cup {me}, modifiedBy |-> -1]

\* doStores and doAtomicIncs by thread me.
DoStores(l, me) == [holders |-> {me}, modifiedBy |-> me]

Ops == {"doLoads", "doStores", "doAtomicIncs"}

Apply(o, l, me) == IF o = "doLoads" THEN DoLoads(l, me) ELSE DoStores(l, me)

\* An event of the history: thread me did what, in which configuration and
\* sample of its loops.
Ev(me, what) == [who |-> me, what |-> what, reach |-> cfg[me], sample |-> smp[me]]

(***************************************************************************)
(* measureSharingFrom.                                                     *)
(***************************************************************************)
\* A message written to standard output or standard error.
Msg(text) == [text |-> text, rows |-> << >>]

\* main while it is inside a call of a measurement function.
InCall ==
  /\ mpc = "call"
  /\ argv = [argc |-> 2]
  /\ aligned = TRUE
  /\ page = 1
  /\ measureFn = "none"
  /\ iter = 0
  /\ stdout = << >>
  /\ stderr = << >>
  /\ status = -1
  /\ calls = 0

InitCommon ==
  /\ InCall
  /\ nThreads \in 2 .. MaxThreads
  /\ from \in 0 .. nThreads - 1
  /\ cfg = [t \in Threads |-> 0]
  /\ smp = [t \in Threads |-> 0]
  /\ rep = [t \in Threads |-> 0]
  /\ logicalPos = [t \in Threads |-> -1]
  /\ whatIDo = [t \in Threads |-> "unset"]
  /\ stats = [i \in Threads |-> EmptyStat]
  /\ timer = [t \in Threads |-> 0]
  /\ at = [t \in Threads |-> 0]
  /\ line = [holders |-> {0}, modifiedBy |-> 0]
  /\ bl = [val |-> 0, t |-> 0, cfg |-> 0, smp |-> 0]
  /\ threadTimes = [p \in Threads |-> 0]
  /\ clockOffset = [t \in Threads |-> 0]
  /\ reg = [Tstart |-> 0, Tother |-> 0, Tend |-> 0, sum2 |-> 0, n |-> 0]
  /\ hist = << >>

\* The history of clock offset estimation and of the visibility protocol:
\* the values passed to send() and returned by recv(), the peers whose offset
\* has been stored, and what the last visibility sample computed.
NoHistory ==
  [sent |-> << >>, got |-> << >>, estimated |-> {}, samples |-> 0,
   sharing |-> 0, times |-> << >>, elapsed |-> 0, stampAt |-> 0]

NoTimes ==
  /\ skew = [t \in Threads |-> 0]
  /\ lat = [t \in Threads |-> NoLat]

InitSharing ==
  /\ proto = "sharing"
  /\ caller = "main"
  /\ InitCommon
  /\ NoTimes
  /\ op \in Ops
  /\ modified \in BOOLEAN
  /\ opTime \in LatValues
  /\ allocateInT0 = FALSE
  /\ chan = << >>
  /\ pc = [t \in Threads |-> "S_enter"]

S_EnterFromZero(me) ==
  /\ pc[me] = "S_enter"
  /\ logicalPos' = [logicalPos EXCEPT ![me] = LogicalPos(me)]
  /\ cfg' = [cfg EXCEPT ![me] = 0]
  /\ smp' = [smp EXCEPT ![me] = 0]
  /\ whatIDo' = [whatIDo EXCEPT ![me] = SharingRole(LogicalPos(me), 0)]
  /\ pc' = [pc EXCEPT ![me] = "S_b1"]
  /\ UNCHANGED << env, rep, chan, stats, timer, at, line, bl, threadTimes,
                  clockOffset, reg, hist >>

\* Lines 251-263: the thread's logical position and its role for sharing = 1.
S_Enter(me) ==
  /\ pc[me] = "S_enter"
  /\ logicalPos' = [logicalPos EXCEPT ![me] = LogicalPos(me)]
  /\ cfg' = [cfg EXCEPT ![me] = 1]
  /\ smp' = [smp EXCEPT ![me] = 0]
  /\ whatIDo' = [whatIDo EXCEPT ![me] = SharingRole(LogicalPos(me), 1)]
  /\ pc' = [pc EXCEPT ![me] = IF 1 < nThreads THEN "S_b1" ELSE "done"]
  /\ UNCHANGED << env, rep, chan, stats, timer, at, line, bl, threadTimes,
                  clockOffset, reg, hist >>

\* Lines 266-274: the active thread flushes the measured array.
S_Flush(me) ==
  /\ pc[me] = "S_flush"
  /\ IF whatIDo[me] = "active"
       THEN /\ line' = Flush(line, me)
            /\ hist' = << Ev(me, "flush") >>
       ELSE UNCHANGED << line, hist >>
  /\ pc' = [pc EXCEPT ![me] = "S_b2"]
  /\ UNCHANGED << env, cfg, smp, rep, logicalPos, whatIDo, chan, stats, timer,
                  at, bl, threadTimes, clockOffset, reg >>

S_OwnerNoBarrier(me) ==
  /\ pc[me] = "S_owner"
  /\ IF whatIDo[me] = "setupOwner"
       THEN /\ line' = IF modified THEN DoStores(line, me) ELSE DoLoads(line, me)
            /\ hist' = Append(hist, Ev(me, "seed"))
       ELSE UNCHANGED << line, hist >>
  /\ pc' = [pc EXCEPT ![me] = "S_setup"]
  /\ UNCHANGED << env, cfg, smp, rep, logicalPos, whatIDo, chan, stats, timer,
                  at, bl, threadTimes, clockOffset, reg >>

\* Lines 275-287: the setup owner brings the line into the wanted state.
S_Owner(me) ==
  /\ pc[me] = "S_owner"
  /\ IF whatIDo[me] = "setupOwner"
       THEN /\ line' = IF modified THEN DoStores(line, me) ELSE DoLoads(line, me)
            /\ hist' = Append(hist, Ev(me, "seed"))
       ELSE UNCHANGED << line, hist >>
  /\ pc' = [pc EXCEPT ![me] = "S_b3"]
  /\ UNCHANGED << env, cfg, smp, rep, logicalPos, whatIDo, chan, stats, timer,
                  at, bl, threadTimes, clockOffset, reg >>

S_SetupNoBarrier(me) ==
  /\ pc[me] = "S_setup"
  /\ IF whatIDo[me] = "setup"
       THEN /\ line' = DoLoads(line, me)
            /\ hist' = Append(hist, Ev(me, "load"))
       ELSE UNCHANGED << line, hist >>
  /\ pc' = [pc EXCEPT ![me] = "S_timed"]
  /\ UNCHANGED << env, cfg, smp, rep, logicalPos, whatIDo, chan, stats, timer,
                  at, bl, threadTimes, clockOffset, reg >>

\* Lines 288-296: the setup threads load the line.
S_Setup(me) ==
  /\ pc[me] = "S_setup"
  /\ IF whatIDo[me] = "setup"
       THEN /\ line' = DoLoads(line, me)
            /\ hist' = Append(hist, Ev(me, "load"))
       ELSE UNCHANGED << line, hist >>
  /\ pc' = [pc EXCEPT ![me] = "S_b4"]
  /\ UNCHANGED << env, cfg, smp, rep, logicalPos, whatIDo, chan, stats, timer,
                  at, bl, threadTimes, clockOffset, reg >>

\* Lines 297-310: the active thread times the operation into stats[sharing];
\* then the next sample, or the next sharing with its role.
S_Timed(me) ==
  /\ pc[me] = "S_timed"
  /\ IF whatIDo[me] = "active"
       THEN /\ line' = Apply(op, line, me)
            /\ at' = [at EXCEPT ![me] = @ + opTime]
            /\ stats' = [stats EXCEPT ![cfg[me]] =
                            AddSample(@, (at[me] + opTime - skew[me]) - Clock(me))]
            /\ hist' = Append(hist, Ev(me, "timed"))
       ELSE UNCHANGED << line, at, stats, hist >>
  /\ IF smp[me] + 1 < NumSamples
       THEN /\ smp' = [smp EXCEPT ![me] = @ + 1]
            /\ pc' = [pc EXCEPT ![me] = "S_b1"]
            /\ UNCHANGED << cfg, whatIDo >>
       ELSE /\ smp' = [smp EXCEPT ![me] = 0]
            /\ cfg' = [cfg EXCEPT ![me] = @ + 1]
            /\ IF cfg[me] + 1 < nThreads
                 THEN /\ whatIDo' = [whatIDo EXCEPT ![me] =
                                       SharingRole(logicalPos[me], cfg[me] + 1)]
                      /\ pc' = [pc EXCEPT ![me] = "S_b1"]
                 ELSE /\ pc' = [pc EXCEPT ![me] = "done"]
                      /\ UNCHANGED whatIDo
  /\ UNCHANGED << env, rep, logicalPos, chan, timer, bl, threadTimes,
                  clockOffset, reg >>

\* Lines 313-316: after the parallel region, every statistic is scaled down.
S_Scale ==
  /\ proto = "sharing"
  /\ \A t \in Threads : pc[t] = "done"
  /\ stats' = [i \in Threads |-> ScaleDown(stats[i], measurementArraySize)]
  /\ pc' = [t \in Threads |-> "returned"]
  /\ UNCHANGED << env, cfg, smp, rep, logicalPos, whatIDo, chan, timer, at,
                  line, bl, threadTimes, clockOffset, reg, hist >>

NextSharing ==
  \/ Barrier
  \/ S_Scale
  \/ \E me \in Threads : S_Enter(me)
  \/ \E me \in Threads : S_Flush(me)
  \/ \E me \in Threads : S_Owner(me)
  \/ \E me \in Threads : S_Setup(me)
  \/ \E me \in Threads : S_Timed(me)

SpecSharing == InitSharing /\ [][NextSharing]_vars

(***************************************************************************)
(* measureRoundtripFrom<ChannelClass>(stats, source); the source is from.  *)
(* Both channel classes have the behaviour modelled above.                 *)
(***************************************************************************)
InitRoundtrip ==
  /\ proto = "roundtrip"
  /\ caller = "main"
  /\ InitCommon
  /\ skew = [t \in Threads |-> 0]
  /\ lat \in [Threads -> Lats]
  /\ lat[from] = NoLat
  /\ op = "none"
  /\ modified = FALSE
  /\ opTime = 0
  /\ allocateInT0 = FALSE
  /\ chan = [c \in {"chan"} |-> IdleChan]
  /\ pc = [t \in Threads |-> "R_enter"]

\* Lines 330-334: the source allocates the channel.
R_Enter(me) ==
  /\ pc[me] = "R_enter"
  /\ chan' = IF me = from THEN [chan EXCEPT !["chan"] = IdleChan] ELSE chan
  /\ cfg' = [cfg EXCEPT ![me] = -1]
  /\ pc' = [pc EXCEPT ![me] = "R_b0"]
  /\ UNCHANGED << env, smp, rep, logicalPos, whatIDo, stats, timer, at, line,
                  bl, threadTimes, clockOffset, reg, hist >>

\* Line 345: the releases of one burst; line 353: the waits of one burst.
R_Reps == innerRepsRoundtrip
R_WaitRepsShort == innerRepsRoundtrip - 1
R_WaitReps == innerRepsRoundtrip

\* The next value of other after o, skipping the source (lines 337-339).
NextOther(o) == IF o + 1 = from THEN o + 2 ELSE o + 1

\* Lines 337-341, 351: the head of the loop over other, and the thread's part.
R_Turn(me) ==
  /\ pc[me] = "R_turn"
  /\ LET o == NextOther(cfg[me])
     IN  /\ cfg' = [cfg EXCEPT ![me] = o]
         /\ pc' = [pc EXCEPT ![me] =
                     IF o >= nThreads THEN "done"
                     ELSE IF me = from THEN "R_start"
                     ELSE IF me = o THEN "R_wait" ELSE "R_b1"]
  /\ smp' = [smp EXCEPT ![me] = 0]
  /\ rep' = [rep EXCEPT ![me] = 0]
  /\ UNCHANGED << env, logicalPos, whatIDo, chan, stats, timer, at, line, bl,
                  threadTimes, clockOffset, reg, hist >>

\* Lines 342-343: the BlockTimer of a sample starts.
R_Start(me) ==
  /\ pc[me] = "R_start"
  /\ timer' = [timer EXCEPT ![me] = Clock(me)]
  /\ rep' = [rep EXCEPT ![me] = 0]
  /\ pc' = [pc EXCEPT ![me] = "R_release"]
  /\ UNCHANGED << env, cfg, smp, logicalPos, whatIDo, chan, stats, at, line, bl,
                  threadTimes, clockOffset, reg, hist >>

\* Lines 345-346: one release() of the burst of innerReps.
R_Release(me) ==
  /\ pc[me] = "R_release"
  /\ CanRelease("chan")
  /\ chan' = Released("chan", me)
  /\ at' = [at EXCEPT ![me] = SeenAt("chan", me)]
  /\ rep' = [rep EXCEPT ![me] = @ + 1]
  /\ pc' = [pc EXCEPT ![me] =
              IF rep[me] + 1 < R_Reps THEN "R_release" ELSE "R_waitFor"]
  /\ UNCHANGED << env, cfg, smp, logicalPos, whatIDo, stats, timer, line, bl,
                  threadTimes, clockOffset, reg, hist >>

R_NoWaitFor(me) ==
  /\ pc[me] = "R_waitFor"
  /\ pc' = [pc EXCEPT ![me] = "R_stop"]
  /\ UNCHANGED << env, cfg, smp, rep, logicalPos, whatIDo, chan, stats, timer,
                  at, line, bl, threadTimes, clockOffset, reg, hist >>

\* Line 347: waitFor(false), to see the final consumption.
R_WaitFor(me) ==
  /\ pc[me] = "R_waitFor"
  /\ CanWaitFor("chan", FALSE)
  /\ at' = [at EXCEPT ![me] = SeenAt("chan", me)]
  /\ pc' = [pc EXCEPT ![me] = "R_stop"]
  /\ UNCHANGED << env, cfg, smp, rep, logicalPos, whatIDo, chan, stats, timer,
                  line, bl, threadTimes, clockOffset, reg, hist >>

\* Line 348: the BlockTimer stops and adds its sample to stats[other].
R_Stop(me) ==
  /\ pc[me] = "R_stop"
  /\ stats' = [stats EXCEPT ![cfg[me]] = AddSample(@, Clock(me) - timer[me])]
  /\ hist' = Append(hist, [idx |-> cfg[me], raw |-> Clock(me) - timer[me]])
  /\ smp' = [smp EXCEPT ![me] = @ + 1]
  /\ pc' = [pc EXCEPT ![me] = IF smp[me] + 1 < NumSamples THEN "R_start" ELSE "R_b1"]
  /\ UNCHANGED << env, cfg, rep, logicalPos, whatIDo, chan, timer, at, line, bl,
                  threadTimes, clockOffset, reg >>

\* Lines 351-356: the other thread consumes NumSamples bursts of innerReps.
R_Wait(me) ==
  /\ pc[me] = "R_wait"
  /\ CanWait("chan")
  /\ chan' = Waited("chan", me)
  /\ at' = [at EXCEPT ![me] = SeenAt("chan", me)]
  /\ IF rep[me] + 1 < R_WaitReps
       THEN /\ rep' = [rep EXCEPT ![me] = @ + 1]
            /\ UNCHANGED << smp, pc >>
       ELSE /\ rep' = [rep EXCEPT ![me] = 0]
            /\ smp' = [smp EXCEPT ![me] = @ + 1]
            /\ pc' = [pc EXCEPT ![me] =
                        IF smp[me] + 1 < NumSamples THEN "R_wait" ELSE "R_b1"]
  /\ UNCHANGED << env, cfg, logicalPos, whatIDo, stats, timer, line, bl,
                  threadTimes, clockOffset, reg, hist >>

R_ScaleByReps ==
  /\ proto = "roundtrip"
  /\ \A t \in Threads : pc[t] = "done"
  /\ stats' = [i \in Threads |-> ScaleDown(stats[i], innerRepsRoundtrip)]
  /\ pc' = [t \in Threads |-> "returned"]
  /\ UNCHANGED << env, cfg, smp, rep, logicalPos, whatIDo, chan, timer, at,
                  line, bl, threadTimes, clockOffset, reg, hist >>

\* Lines 360-364: after the parallel region, every statistic is scaled down.
R_Scale ==
  /\ proto = "roundtrip"
  /\ \A t \in Threads : pc[t] = "done"
  /\ stats' = [i \in Threads |-> ScaleDown(stats[i], 2 * innerRepsRoundtrip)]
  /\ pc' = [t \in Threads |-> "returned"]
  /\ UNCHANGED << env, cfg, smp, rep, logicalPos, whatIDo, chan, timer, at,
                  line, bl, threadTimes, clockOffset, reg, hist >>

NextRoundtrip ==
  \/ Barrier
  \/ R_Scale
  \/ \E me \in Threads : R_Enter(me)
  \/ \E me \in Threads : R_Turn(me)
  \/ \E me \in Threads : R_Start(me)
  \/ \E me \in Threads : R_Release(me)
  \/ \E me \in Threads : R_WaitFor(me)
  \/ \E me \in Threads : R_Stop(me)
  \/ \E me \in Threads : R_Wait(me)

SpecRoundtrip == InitRoundtrip /\ [][NextRoundtrip]_vars

(***************************************************************************)
(* measureLinePlacement(stats, otherThread); main passes the last thread   *)
(* as otherThread, which is from here.  Thread 0 pings it over each        *)
(* channel of the page in turn, from the last to the first.                *)
(***************************************************************************)
Page == 0 .. NumChannels - 1

InitLine ==
  /\ InCall
  /\ proto = "line"
  /\ caller = "main"
  /\ nThreads \in 2 .. MaxThreads
  /\ from = nThreads - 1
  /\ cfg = [t \in Threads |-> 0]
  /\ smp = [t \in Threads |-> 0]
  /\ rep = [t \in Threads |-> 0]
  /\ logicalPos = [t \in Threads |-> -1]
  /\ whatIDo = [t \in Threads |-> "unset"]
  /\ stats = [i \in Page |-> EmptyStat]
  /\ timer = [t \in Threads |-> 0]
  /\ at = [t \in Threads |-> 0]
  /\ line = [holders |-> {0}, modifiedBy |-> 0]
  /\ bl = [val |-> 0, t |-> 0, cfg |-> 0, smp |-> 0]
  /\ threadTimes = [p \in Threads |-> 0]
  /\ clockOffset = [t \in Threads |-> 0]
  /\ reg = [Tstart |-> 0, Tother |-> 0, Tend |-> 0, sum2 |-> 0, n |-> 0]
  /\ hist = << >>
  /\ skew = [t \in Threads |-> 0]
  /\ lat \in [Threads -> Lats]
  /\ \A t \in Threads : t # from => lat[t] = NoLat
  /\ op = "none"
  /\ modified = FALSE
  /\ opTime = 0
  /\ allocateInT0 = FALSE
  /\ chan = [c \in Page |-> IdleChan]
  /\ pc = [t \in Threads |-> "L_enter"]

\* Lines 407-409, 423-424: thread 0 and otherThread start at the last channel;
\* the other threads have nothing to do.
L_Enter(me) ==
  /\ pc[me] = "L_enter"
  /\ cfg' = [cfg EXCEPT ![me] = NumChannels - 1]
  /\ smp' = [smp EXCEPT ![me] = 0]
  /\ rep' = [rep EXCEPT ![me] = 0]
  /\ pc' = [pc EXCEPT ![me] =
              IF NumChannels - 1 < 0 THEN "done"
              ELSE IF me = 0 THEN "L_chan"
              ELSE IF me = from THEN "L_wait" ELSE "done"]
  /\ UNCHANGED << env, logicalPos, whatIDo, chan, stats, timer, at, line, bl,
                  threadTimes, clockOffset, reg, hist >>

\* Lines 410-412: the statistic of the channel is reset.
L_Chan(me) ==
  /\ pc[me] = "L_chan"
  /\ stats' = [stats EXCEPT ![cfg[me]] = EmptyStat]
  /\ smp' = [smp EXCEPT ![me] = 0]
  /\ pc' = [pc EXCEPT ![me] = "L_start"]
  /\ UNCHANGED << env, cfg, rep, logicalPos, whatIDo, chan, timer, at, line, bl,
                  threadTimes, clockOffset, reg, hist >>

\* Lines 413-414: the BlockTimer of a sample starts.
L_Start(me) ==
  /\ pc[me] = "L_start"
  /\ timer' = [timer EXCEPT ![me] = Clock(me)]
  /\ rep' = [rep EXCEPT ![me] = 0]
  /\ pc' = [pc EXCEPT ![me] = "L_release"]
  /\ UNCHANGED << env, cfg, smp, logicalPos, whatIDo, chan, stats, at, line, bl,
                  threadTimes, clockOffset, reg, hist >>

\* Lines 416-417: one release() of the burst of innerReps.
L_Release(me) ==
  /\ pc[me] = "L_release"
  /\ CanRelease(cfg[me])
  /\ chan' = Released(cfg[me], me)
  /\ at' = [at EXCEPT ![me] = SeenAt(cfg[me], me)]
  /\ rep' = [rep EXCEPT ![me] = @ + 1]
  /\ pc' = [pc EXCEPT ![me] =
              IF rep[me] + 1 < innerRepsLine THEN "L_release" ELSE "L_waitFor"]
  /\ UNCHANGED << env, cfg, smp, logicalPos, whatIDo, stats, timer, line, bl,
                  threadTimes, clockOffset, reg, hist >>

\* Line 418: waitFor(false), to see the final consumption.
L_WaitFor(me) ==
  /\ pc[me] = "L_waitFor"
  /\ CanWaitFor(cfg[me], FALSE)
  /\ at' = [at EXCEPT ![me] = SeenAt(cfg[me], me)]
  /\ pc' = [pc EXCEPT ![me] = "L_stop"]
  /\ UNCHANGED << env, cfg, smp, rep, logicalPos, whatIDo, chan, stats, timer,
                  line, bl, threadTimes, clockOffset, reg, hist >>

\* Lines 419-421: the BlockTimer stops and adds its sample to stats[chanIdx];
\* then the next sample, or the next channel.
L_Stop(me) ==
  /\ pc[me] = "L_stop"
  /\ stats' = [stats EXCEPT ![cfg[me]] = AddSample(@, Clock(me) - timer[me])]
  /\ hist' = Append(hist, [idx |-> cfg[me], raw |-> Clock(me) - timer[me]])
  /\ IF smp[me] + 1 < NumSamples
       THEN /\ smp' = [smp EXCEPT ![me] = @ + 1]
            /\ pc' = [pc EXCEPT ![me] = "L_start"]
            /\ UNCHANGED cfg
       ELSE /\ smp' = [smp EXCEPT ![me] = 0]
            /\ cfg' = [cfg EXCEPT ![me] = @ - 1]
            /\ pc' = [pc EXCEPT ![me] = IF cfg[me] - 1 >= 0 THEN "L_chan" ELSE "done"]
  /\ UNCHANGED << env, rep, logicalPos, whatIDo, chan, timer, at, line, bl,
                  threadTimes, clockOffset, reg >>

\* Lines 423-431: otherThread consumes NumSamples bursts on each channel.
L_Wait(me) ==
  /\ pc[me] = "L_wait"
  /\ CanWait(cfg[me])
  /\ chan' = Waited(cfg[me], me)
  /\ at' = [at EXCEPT ![me] = SeenAt(cfg[me], me)]
  /\ IF rep[me] + 1 < innerRepsLine
       THEN /\ rep' = [rep EXCEPT ![me] = @ + 1]
            /\ UNCHANGED << smp, cfg, pc >>
       ELSE /\ rep' = [rep EXCEPT ![me] = 0]
            /\ IF smp[me] + 1 < NumSamples
                 THEN /\ smp' = [smp EXCEPT ![me] = @ + 1]
                      /\ UNCHANGED << cfg, pc >>
                 ELSE /\ smp' = [smp EXCEPT ![me] = 0]
                      /\ cfg' = [cfg EXCEPT ![me] = @ - 1]
                      /\ pc' = [pc EXCEPT ![me] =
                                  IF cfg[me] - 1 >= 0 THEN "L_wait" ELSE "done"]
  /\ UNCHANGED << env, logicalPos, whatIDo, stats, timer, line, bl, threadTimes,
                  clockOffset, reg, hist >>

\* Lines 433-435: after the parallel region, every statistic is scaled down.
L_Scale ==
  /\ proto = "line"
  /\ \A t \in Threads : pc[t] = "done"
  /\ stats' = [i \in Page |-> ScaleDown(stats[i], 2 * innerRepsLine)]
  /\ pc' = [t \in Threads |-> "returned"]
  /\ UNCHANGED << env, cfg, smp, rep, logicalPos, whatIDo, chan, timer, at,
                  line, bl, threadTimes, clockOffset, reg, hist >>

NextLine ==
  \/ L_Scale
  \/ \E me \in Threads : L_Enter(me)
  \/ \E me \in Threads : L_Chan(me)
  \/ \E me \in Threads : L_Start(me)
  \/ \E me \in Threads : L_Release(me)
  \/ \E me \in Threads : L_WaitFor(me)
  \/ \E me \in Threads : L_Stop(me)
  \/ \E me \in Threads : L_Wait(me)

SpecLine == InitLine /\ [][NextLine]_vars

\* The round trip protocols together.
SpecPingPong == (InitRoundtrip \/ InitLine) /\ [][NextRoundtrip \/ NextLine]_vars

\* The threads run on cores of their own: a step that can be taken is taken.
SpecPingPongFair == SpecPingPong /\ WF_vars(NextRoundtrip \/ NextLine)

(***************************************************************************)
(* Properties of the round trip protocols.                                 *)
(***************************************************************************)
Returned == \A t \in Threads : pc[t] = "returned"

\* The burst size of the running round trip protocol.
BurstSize == IF proto = "roundtrip" THEN innerRepsRoundtrip ELSE innerRepsLine

\* The statistics the running round trip protocol measures into.
Measured == IF proto = "roundtrip" THEN Threads \ {from} ELSE Page

\* The bursts every channel has carried when the protocol is over.
BurstsPerChannel ==
  IF proto = "roundtrip" THEN (nThreads - 1) * NumSamples ELSE NumSamples

ChanIdle(c) == ~chan[c].flag /\ chan[c].nRel = chan[c].nCon

\* C3: a burst of N release() calls matched by N wait() calls of the paired
\* thread always completes: between the turns and at the end every channel is
\* idle with no unconsumed signal, and the protocol does come to its end, with
\* every burst of every channel released and consumed.
C3_BurstCompletes ==
  /\ []((\A t \in Threads : pc[t] \in {"R_b1", "done", "returned"})
          => \A c \in DOMAIN chan : ChanIdle(c))
  /\ <>(Returned /\ \A c \in DOMAIN chan :
                       /\ ChanIdle(c)
                       /\ chan[c].nCon = BurstsPerChannel * BurstSize)

C3_Witness ==
  /\ proto = "roundtrip"
  /\ nThreads = 3
  /\ Returned
  /\ chan["chan"].nRel = 2 * NumSamples * innerRepsRoundtrip
  /\ chan["chan"].nCon = chan["chan"].nRel

\* C4: waitFor(false) after a burst does not return before every release of
\* the burst has been consumed: when the timer of a sample is about to stop,
\* the channel is idle and all releases made so far have been consumed.
C4_TimerStopsAfterLastConsume ==
  \A t \in Threads :
    pc[t] \in {"R_stop", "L_stop"} =>
      LET c == IF proto = "roundtrip" THEN "chan" ELSE cfg[t]
      IN  /\ ChanIdle(c)
          /\ chan[c].nCon % BurstSize = 0
          /\ chan[c].nCon >= BurstSize

C4_Witness ==
  /\ proto = "roundtrip"
  /\ pc[from] = "R_stop"
  /\ chan["chan"].nRel = innerRepsRoundtrip
  /\ chan["chan"].nCon = innerRepsRoundtrip

RECURSIVE RawSum(_, _)
\* The sum of the raw burst times in history h that went to statistic i.
RawSum(h, i) ==
  IF h = << >> THEN 0
  ELSE (IF Head(h).idx = i THEN Head(h).raw ELSE 0) + RawSum(Tail(h), i)

RECURSIVE Doubled(_, _)
\* A statistic of the samples of history h for statistic i, each doubled.
Doubled(h, i) ==
  IF h = << >> THEN EmptyStat
  ELSE IF Head(h).idx = i
       THEN AddSample(Doubled(Tail(h), i), 2 * Head(h).raw)
       ELSE Doubled(Tail(h), i)

\* C10: the reported latency is the raw time of a burst divided by 2K: the
\* reported mean times 2K is the mean of the raw burst times, for K = 20 in
\* the round trip and K = 10 in line placement; and bursts of 2K in twice the
\* raw time give the same reported value.
C10_HalfRoundTripScaling ==
  Returned =>
    \A i \in Measured :
      LET m == Mean(stats[i])
      IN  /\ stats[i].n = NumSamples
          /\ m[1] * (2 * BurstSize * stats[i].n) = m[2] * RawSum(hist, i)
          /\ Mean(ScaleDown(Doubled(hist, i), 2 * (2 * BurstSize))) = m

C10_Witness ==
  /\ proto = "roundtrip"
  /\ Returned
  /\ \E i \in Measured :
       /\ RawSum(hist, i) = NumSamples * 60
       /\ Mean(stats[i]) = << 3, 2 >>

(***************************************************************************)
(* Properties of the sharing protocol.                                     *)
(***************************************************************************)
\* The threads that have computed their logical position.
Placed == {t \in Threads : logicalPos[t] # -1}

\* The threads whose role is r.
Doing(r) == {t \in Threads : whatIDo[t] = r}

\* The threads whose logical position is in P.
AtPos(P) == {t \in Threads : logicalPos[t] \in P}

\* C2: in the sharing protocol, whenever the whole team is in the samples of
\* reach r (1 <= r < nThreads): the thread at logical position 0 is the one
\* active thread, the thread at position r the one setupOwner, the r - 1
\* threads at positions 1 .. r-1 are setup, all others nothing, and the counts
\* sum to nThreads.  The table gives [active, setup, setupOwner, nothing] for
\* positions 0 .. 3 at r = 2.
C2_SharingRoles ==
  /\ [p \in 0 .. 3 |-> SharingRole(p, 2)] =
       [p \in 0 .. 3 |-> << "active", "setup", "setupOwner", "nothing" >>[p + 1]]
  /\ \A r \in 1 .. nThreads - 1 :
       (\A t \in Threads : cfg[t] = r /\ pc[t] \notin {"S_enter", "done", "returned"})
         => /\ Doing("active") = AtPos({0})
            /\ Cardinality(Doing("active")) = 1
            /\ Doing("setupOwner") = AtPos({r})
            /\ Cardinality(Doing("setupOwner")) = 1
            /\ Doing("setup") = AtPos(1 .. r - 1)
            /\ Cardinality(Doing("setup")) = r - 1
            /\ Doing("nothing") = AtPos(r + 1 .. nThreads - 1)
            /\ Cardinality(Doing("active")) + Cardinality(Doing("setupOwner"))
                 + Cardinality(Doing("setup")) + Cardinality(Doing("nothing")) = nThreads

C2_Witness ==
  /\ proto = "sharing"
  /\ nThreads = 3
  /\ from = 1
  /\ \A t \in Threads : cfg[t] = 2 /\ pc[t] = "S_timed"
  /\ whatIDo = [t \in Threads |-> << "setupOwner", "active", "setup" >>[t + 1]]

(***************************************************************************)
(* measurePlacementFrom.  wait() is taken in its two steps here: the spin  *)
(* until the flag is seen signaled, then the store that consumes it.       *)
(***************************************************************************)
InitPlacement ==
  /\ proto = "placement"
  /\ caller = "main"
  /\ InitCommon
  /\ NoTimes
  /\ op \in Ops
  /\ modified \in BOOLEAN
  /\ opTime \in LatValues
  /\ allocateInT0 \in BOOLEAN
  /\ chan = [c \in {"activeToPassive", "passiveToActive"} |-> IdleChan]
  /\ pc = [t \in Threads |-> "P_enter"]

\* Lines 186-190: with local allocation the team first meets at a barrier.
P_Enter(me) ==
  /\ pc[me] = "P_enter"
  /\ cfg' = [cfg EXCEPT ![me] = -1]
  /\ pc' = [pc EXCEPT ![me] = IF allocateInT0 THEN "P_turn" ELSE "P_ba"]
  /\ UNCHANGED << env, smp, rep, logicalPos, whatIDo, chan, stats, timer, at,
                  line, bl, threadTimes, clockOffset, reg, hist >>

\* Lines 93-98, 191-197: the source allocates the array, which zeroes it,
\* and checks its alignment: when the array is not cache-aligned (ok is
\* false) checkCacheAligned writes its diagnostic and exit(1) ends the
\* process, every thread with it.
P_Alloc(me) ==
  /\ pc[me] = "P_alloc"
  /\ line' = IF me = from THEN DoStores(line, me) ELSE line
  /\ \E ok \in (IF me = from THEN BOOLEAN ELSE {TRUE}) :
       IF ok
         THEN /\ pc' = [pc EXCEPT ![me] = "P_bb"]
              /\ UNCHANGED << mpc, stderr, status >>
         ELSE /\ pc' = [t \in Threads |-> "exited"]
              /\ stderr' = Append(stderr, Msg("Array is not aligned as required"))
              /\ status' = 1
              /\ mpc' = "exited"
  /\ UNCHANGED << proto, caller, nThreads, from, op, modified, opTime,
                  allocateInT0, skew, lat, argv, aligned, page, measureFn, iter,
                  stdout, calls, cfg, smp, rep, logicalPos, whatIDo, chan, stats,
                  timer, at, bl, threadTimes, clockOffset, reg, hist >>

P_IsPassiveAny(me, placement) == me # from

\* Line 219: the thread the source communicates with in this turn.
P_IsPassive(me, placement) == me = placement

\* Lines 199-203, 219: the head of the loop over placement, and the thread's part.
P_Turn(me) ==
  /\ pc[me] = "P_turn"
  /\ LET o == NextOther(cfg[me])
     IN  /\ cfg' = [cfg EXCEPT ![me] = o]
         /\ pc' = [pc EXCEPT ![me] =
                     IF o >= nThreads THEN "done"
                     ELSE IF me = from THEN "P_flush"
                     ELSE IF P_IsPassive(me, o) THEN "P_wait" ELSE "P_b1"]
  /\ smp' = [smp EXCEPT ![me] = 0]
  /\ UNCHANGED << env, rep, logicalPos, whatIDo, chan, stats, timer, at, line,
                  bl, threadTimes, clockOffset, reg, hist >>

\* Lines 204-206: the source flushes the array.
P_Flush(me) ==
  /\ pc[me] = "P_flush"
  /\ line' = Flush(line, me)
  /\ hist' = << Ev(me, "flush") >>
  /\ pc' = [pc EXCEPT ![me] = "P_release"]
  /\ UNCHANGED << env, cfg, smp, rep, logicalPos, whatIDo, chan, stats, timer,
                  at, bl, threadTimes, clockOffset, reg >>

\* Line 208: activeToPassive.release().
P_Release(me) ==
  /\ pc[me] = "P_release"
  /\ CanRelease("activeToPassive")
  /\ chan' = Released("activeToPassive", me)
  /\ at' = [at EXCEPT ![me] = SeenAt("activeToPassive", me)]
  /\ pc' = [pc EXCEPT ![me] = "P_waitReply"]
  /\ UNCHANGED << env, cfg, smp, rep, logicalPos, whatIDo, stats, timer, line,
                  bl, threadTimes, clockOffset, reg, hist >>

P_WaitReplyNoSpin(me) ==
  /\ pc[me] = "P_waitReply"
  /\ pc' = [pc EXCEPT ![me] = "P_consumeReply"]
  /\ UNCHANGED << env, cfg, smp, rep, logicalPos, whatIDo, chan, stats, timer,
                  at, line, bl, threadTimes, clockOffset, reg, hist >>

\* Line 210: passiveToActive.wait(), the spin.
P_WaitReply(me) ==
  /\ pc[me] = "P_waitReply"
  /\ CanWait("passiveToActive")
  /\ at' = [at EXCEPT ![me] = SeenAt("passiveToActive", me)]
  /\ pc' = [pc EXCEPT ![me] = "P_consumeReply"]
  /\ UNCHANGED << env, cfg, smp, rep, logicalPos, whatIDo, chan, stats, timer,
                  line, bl, threadTimes, clockOffset, reg, hist >>

P_ConsumeReplyButLast(me) ==
  /\ pc[me] = "P_consumeReply"
  /\ chan' = IF smp[me] + 1 < NumSamples THEN Waited("passiveToActive", me) ELSE chan
  /\ pc' = [pc EXCEPT ![me] = "P_timed"]
  /\ UNCHANGED << env, cfg, smp, rep, logicalPos, whatIDo, stats, timer, at,
                  line, bl, threadTimes, clockOffset, reg, hist >>

\* Line 210: passiveToActive.wait(), the consumption.
P_ConsumeReply(me) ==
  /\ pc[me] = "P_consumeReply"
  /\ chan' = Waited("passiveToActive", me)
  /\ pc' = [pc EXCEPT ![me] = "P_timed"]
  /\ UNCHANGED << env, cfg, smp, rep, logicalPos, whatIDo, stats, timer, at,
                  line, bl, threadTimes, clockOffset, reg, hist >>

\* Lines 211-217: the source times the operation into stats[placement].
P_Timed(me) ==
  /\ pc[me] = "P_timed"
  /\ line' = Apply(op, line, me)
  /\ at' = [at EXCEPT ![me] = @ + opTime]
  /\ stats' = [stats EXCEPT ![cfg[me]] =
                  AddSample(@, (at[me] + opTime - skew[me]) - Clock(me))]
  /\ hist' = Append(hist, Ev(me, "timed"))
  /\ smp' = [smp EXCEPT ![me] = @ + 1]
  /\ pc' = [pc EXCEPT ![me] = IF smp[me] + 1 < NumSamples THEN "P_flush" ELSE "P_b1"]
  /\ UNCHANGED << env, cfg, rep, logicalPos, whatIDo, chan, timer, bl,
                  threadTimes, clockOffset, reg >>

\* Line 221: activeToPassive.wait(), the spin.
P_Wait(me) ==
  /\ pc[me] = "P_wait"
  /\ CanWait("activeToPassive")
  /\ at' = [at EXCEPT ![me] = SeenAt("activeToPassive", me)]
  /\ pc' = [pc EXCEPT ![me] = "P_consume"]
  /\ UNCHANGED << env, cfg, smp, rep, logicalPos, whatIDo, chan, stats, timer,
                  line, bl, threadTimes, clockOffset, reg, hist >>

\* Line 221: activeToPassive.wait(), the consumption.
P_Consume(me) ==
  /\ pc[me] = "P_consume"
  /\ chan' = Waited("activeToPassive", me)
  /\ pc' = [pc EXCEPT ![me] = "P_state"]
  /\ UNCHANGED << env, cfg, smp, rep, logicalPos, whatIDo, stats, timer, at,
                  line, bl, threadTimes, clockOffset, reg, hist >>

\* Lines 222-226: the passive thread brings the lines into the wanted state.
P_State(me) ==
  /\ pc[me] = "P_state"
  /\ line' = IF modified THEN DoStores(line, me) ELSE DoLoads(line, me)
  /\ hist' = Append(hist, Ev(me, "seed"))
  /\ pc' = [pc EXCEPT ![me] = "P_reply"]
  /\ UNCHANGED << env, cfg, smp, rep, logicalPos, whatIDo, chan, stats, timer,
                  at, bl, threadTimes, clockOffset, reg >>

P_ReplyNoBarrier(me) ==
  /\ pc[me] = "P_reply"
  /\ CanRelease("passiveToActive")
  /\ chan' = Released("passiveToActive", me)
  /\ at' = [at EXCEPT ![me] = SeenAt("passiveToActive", me)]
  /\ smp' = [smp EXCEPT ![me] = @ + 1]
  /\ pc' = [pc EXCEPT ![me] = IF smp[me] + 1 < NumSamples THEN "P_wait" ELSE "P_turn"]
  /\ UNCHANGED << env, cfg, rep, logicalPos, whatIDo, stats, timer, line, bl,
                  threadTimes, clockOffset, reg, hist >>

\* Lines 227-229: passiveToActive.release(); then the next sample.
P_Reply(me) ==
  /\ pc[me] = "P_reply"
  /\ CanRelease("passiveToActive")
  /\ chan' = Released("passiveToActive", me)
  /\ at' = [at EXCEPT ![me] = SeenAt("passiveToActive", me)]
  /\ smp' = [smp EXCEPT ![me] = @ + 1]
  /\ pc' = [pc EXCEPT ![me] = IF smp[me] + 1 < NumSamples THEN "P_wait" ELSE "P_b1"]
  /\ UNCHANGED << env, cfg, rep, logicalPos, whatIDo, stats, timer, line, bl,
                  threadTimes, clockOffset, reg, hist >>

\* Lines 234-240: after the parallel region, every statistic is scaled down.
P_Scale ==
  /\ proto = "placement"
  /\ \A t \in Threads : pc[t] = "done"
  /\ stats' = [i \in Threads |-> ScaleDown(stats[i], measurementArraySize)]
  /\ pc' = [t \in Threads |-> "returned"]
  /\ UNCHANGED << env, cfg, smp, rep, logicalPos, whatIDo, chan, timer, at,
                  line, bl, threadTimes, clockOffset, reg, hist >>

NextPlacement ==
  \/ Barrier
  \/ P_Scale
  \/ \E me \in Threads : P_Enter(me)
  \/ \E me \in Threads : P_Alloc(me)
  \/ \E me \in Threads : P_Turn(me)
  \/ \E me \in Threads : P_Flush(me)
  \/ \E me \in Threads : P_Release(me)
  \/ \E me \in Threads : P_WaitReply(me)
  \/ \E me \in Threads : P_ConsumeReply(me)
  \/ \E me \in Threads : P_Timed(me)
  \/ \E me \in Threads : P_Wait(me)
  \/ \E me \in Threads : P_Consume(me)
  \/ \E me \in Threads : P_State(me)
  \/ \E me \in Threads : P_Reply(me)

SpecPlacement == InitPlacement /\ [][NextPlacement]_vars

\* C5: wait() returns only when an unconsumed release exists and consumes
\* exactly one: on every channel the completed wait() calls never outnumber
\* the release() calls, and the releases not yet consumed are the one the
\* flag shows, or none.
C5_WaitConsumesOneRelease ==
  \A c \in DOMAIN chan :
    /\ chan[c].nCon <= chan[c].nRel
    /\ chan[c].nRel - chan[c].nCon = (IF chan[c].flag THEN 1 ELSE 0)

C5_Witness ==
  /\ proto = "placement"
  /\ nThreads = 3
  /\ chan["activeToPassive"].nCon = 2 * NumSamples
  /\ chan["activeToPassive"].nRel = 2 * NumSamples
  /\ chan["passiveToActive"].nRel = 2 * NumSamples
  /\ chan["passiveToActive"].nCon = 2 * NumSamples - 1
  /\ pc[from] = "P_consumeReply"

(***************************************************************************)
(* computeClockOffset(offsets).  Thread 0 is the hub.  The samples are     *)
(* kept doubled (sum2), since (Tend - Tstart) / 2.0 may be a half.         *)
(***************************************************************************)
\* Twice the offset sample of an exchange with peer t, from the times of the
\* exchange: the release at Tstart is seen lat[t].out later, the reply
\* lat[t].back after that (lines 475-478, 506-510).
ExchangeSample2(t) == 2 * skew[t] + lat[t].back - lat[t].out

\* Lines 466, 535: the caller's array of offsets is not initialised and
\* computeClockOffset writes offsets[0] only before the turns, so until the
\* turn of peer t has ended offsets[t] holds whatever that slot of the stack
\* held, each slot by itself: zero, the estimate an earlier call of
\* measureVisibilityFrom left there (main calls it once per source, lines
\* 975-976), or another leftover, here a value that no estimate takes.
StackHeld == {"zero", "estimate", "leftover"}

Indeterminate(held, t) ==
  CASE held = "zero" -> 0
    [] held = "estimate" -> TruncDiv(ExchangeSample2(t), 2)
    [] held = "leftover" -> 2 * MaxSkew + MaxLat + t

InitClockFor(who) ==
  /\ InCall
  /\ proto = "clock"
  /\ caller = who
  /\ nThreads \in 2 .. MaxThreads
  /\ from \in (IF who = "main" THEN {0} ELSE 0 .. nThreads - 1)
  /\ cfg = [t \in Threads |-> 0]
  /\ smp = [t \in Threads |-> 0]
  /\ rep = [t \in Threads |-> 0]
  /\ logicalPos = [t \in Threads |-> -1]
  /\ whatIDo = [t \in Threads |-> "unset"]
  /\ stats = [i \in Threads |-> EmptyStat]
  /\ timer = [t \in Threads |-> 0]
  /\ at = [t \in Threads |-> 0]
  /\ line = [holders |-> {0}, modifiedBy |-> 0]
  /\ bl = [val |-> 0, t |-> 0, cfg |-> 0, smp |-> 0]
  /\ threadTimes = [p \in Threads |-> 0]
  /\ reg = [Tstart |-> 0, Tother |-> 0, Tend |-> 0, sum2 |-> 0, n |-> 0]
  /\ hist = NoHistory
  /\ skew \in [Threads -> Skews]
  /\ skew[0] = 0
  /\ lat \in [Threads -> Lats]
  /\ lat[0].back = 1
  /\ (from = 0 => lat[0].out = 1)
  /\ \E held \in [Threads \ {0} -> StackHeld] :
       clockOffset = [t \in Threads |-> IF t = 0 THEN 0 ELSE Indeterminate(held[t], t)]
  /\ op = "none"
  /\ modified = FALSE
  /\ opTime = 0
  /\ allocateInT0 = FALSE
  /\ chan = [c \in {"zeroToOther", "otherToZero"} |-> IdleChan]
  /\ pc = [t \in Threads |-> "C_turn"]

\* A machine where at most one peer is more than one tick away from thread 0.
OneFarPeer ==
  \E far \in Threads \ {0} : \A t \in Threads \ {0, far} : lat[t] = NoLat

\* computeClockOffset by itself, on such a machine.
InitClock == InitClockFor("main") /\ OneFarPeer

C_TurnEveryPeer(me) ==
  /\ pc[me] = "C_turn"
  /\ cfg' = [cfg EXCEPT ![me] = @ + 1]
  /\ smp' = [smp EXCEPT ![me] = 0]
  /\ pc' = [pc EXCEPT ![me] =
              IF cfg[me] + 1 >= nThreads THEN "done"
              ELSE IF me = 0 THEN "C_start"
              ELSE IF me >= cfg[me] + 1 THEN "C_wait" ELSE "C_b1"]
  /\ reg' = IF me = 0 THEN [reg EXCEPT !.sum2 = 0, !.n = 0] ELSE reg
  /\ UNCHANGED << env, rep, logicalPos, whatIDo, chan, stats, timer, at, line,
                  bl, threadTimes, clockOffset, hist >>

\* Lines 471-472, 515: the head of the loop over other, and the thread's part.
C_Turn(me) ==
  /\ pc[me] = "C_turn"
  /\ cfg' = [cfg EXCEPT ![me] = @ + 1]
  /\ smp' = [smp EXCEPT ![me] = 0]
  /\ pc' = [pc EXCEPT ![me] =
              IF cfg[me] + 1 >= nThreads THEN "done"
              ELSE IF me = 0 THEN "C_start"
              ELSE IF me = cfg[me] + 1 THEN "C_wait" ELSE "C_b1"]
  /\ reg' = IF me = 0 THEN [reg EXCEPT !.sum2 = 0, !.n = 0] ELSE reg
  /\ UNCHANGED << env, rep, logicalPos, whatIDo, chan, stats, timer, at, line,
                  bl, threadTimes, clockOffset, hist >>

\* Line 475: Tstart.
C_Start(me) ==
  /\ pc[me] = "C_start"
  /\ reg' = [reg EXCEPT !.Tstart = Clock(me)]
  /\ pc' = [pc EXCEPT ![me] = "C_release"]
  /\ UNCHANGED << env, cfg, smp, rep, logicalPos, whatIDo, chan, stats, timer,
                  at, line, bl, threadTimes, clockOffset, hist >>

\* Line 476: zeroToOther.release().
C_Release(me) ==
  /\ pc[me] = "C_release"
  /\ CanRelease("zeroToOther")
  /\ chan' = Released("zeroToOther", me)
  /\ at' = [at EXCEPT ![me] = SeenAt("zeroToOther", me)]
  /\ pc' = [pc EXCEPT ![me] = "C_recv"]
  /\ UNCHANGED << env, cfg, smp, rep, logicalPos, whatIDo, stats, timer, line,
                  bl, threadTimes, clockOffset, reg, hist >>

C_RecvNoSpin(me) ==
  /\ pc[me] = "C_recv"
  /\ pc' = [pc EXCEPT ![me] = "C_read"]
  /\ UNCHANGED << env, cfg, smp, rep, logicalPos, whatIDo, chan, stats, timer,
                  at, line, bl, threadTimes, clockOffset, reg, hist >>

\* Line 477: otherToZero.recv(), the wait.
C_Recv(me) ==
  /\ pc[me] = "C_recv"
  /\ CanWait("otherToZero")
  /\ chan' = Waited("otherToZero", me)
  /\ at' = [at EXCEPT ![me] = SeenAt("otherToZero", me)]
  /\ pc' = [pc EXCEPT ![me] = "C_read"]
  /\ UNCHANGED << env, cfg, smp, rep, logicalPos, whatIDo, stats, timer, line,
                  bl, threadTimes, clockOffset, reg, hist >>

\* Line 477: otherToZero.recv(), the read of the payload.
C_Read(me) ==
  /\ pc[me] = "C_read"
  /\ reg' = [reg EXCEPT !.Tother = chan["otherToZero"].data]
  /\ hist' = [hist EXCEPT !.got = Append(@, chan["otherToZero"].data)]
  /\ pc' = [pc EXCEPT ![me] = "C_end"]
  /\ UNCHANGED << env, cfg, smp, rep, logicalPos, whatIDo, chan, stats, timer,
                  at, line, bl, threadTimes, clockOffset >>

OffsetSample2Plain(Tstart, Tother, Tend) == 2 * (Tstart - Tother)

\* Lines 506-510: twice the offset Tstart - (Tother - (Tend - Tstart) / 2.0).
OffsetSample2(Tstart, Tother, Tend) == 2 * Tstart - (2 * Tother - (Tend - Tstart))

C_EndKeepFirst(me) ==
  /\ pc[me] = "C_end"
  /\ LET Tend == Clock(me)
         r == IF FALSE
              THEN [reg EXCEPT !.Tend = Tend]
              ELSE [reg EXCEPT !.Tend = Tend,
                               !.sum2 = @ + OffsetSample2(reg.Tstart, reg.Tother, Tend),
                               !.n = @ + 1]
     IN  /\ reg' = r
         /\ smp' = [smp EXCEPT ![me] = @ + 1]
         /\ IF smp[me] + 1 < NumTests
              THEN /\ pc' = [pc EXCEPT ![me] = "C_start"]
                   /\ UNCHANGED << clockOffset, hist >>
              ELSE /\ pc' = [pc EXCEPT ![me] = "C_b1"]
                   /\ clockOffset' = [clockOffset EXCEPT ![cfg[me]] =
                                        IF r.n = 0 THEN 0 ELSE TruncDiv(r.sum2, 2 * r.n)]
                   /\ hist' = [hist EXCEPT !.estimated = @ \cup {cfg[me]}]
  /\ UNCHANGED << env, cfg, rep, logicalPos, whatIDo, chan, stats, timer, at,
                  line, bl, threadTimes >>

\* Lines 478-514: Tend; but for the first trial, the sample; after the last
\* trial the mean of the samples is stored as the offset of other.
C_End(me) ==
  /\ pc[me] = "C_end"
  /\ LET Tend == Clock(me)
         r == IF smp[me] = 0
              THEN [reg EXCEPT !.Tend = Tend]
              ELSE [reg EXCEPT !.Tend = Tend,
                               !.sum2 = @ + OffsetSample2(reg.Tstart, reg.Tother, Tend),
                               !.n = @ + 1]
     IN  /\ reg' = r
         /\ smp' = [smp EXCEPT ![me] = @ + 1]
         /\ IF smp[me] + 1 < NumTests
              THEN /\ pc' = [pc EXCEPT ![me] = "C_start"]
                   /\ UNCHANGED << clockOffset, hist >>
              ELSE /\ pc' = [pc EXCEPT ![me] = "C_b1"]
                   /\ clockOffset' = [clockOffset EXCEPT ![cfg[me]] =
                                        IF r.n = 0 THEN 0 ELSE TruncDiv(r.sum2, 2 * r.n)]
                   /\ hist' = [hist EXCEPT !.estimated = @ \cup {cfg[me]}]
  /\ UNCHANGED << env, cfg, rep, logicalPos, whatIDo, chan, stats, timer, at,
                  line, bl, threadTimes >>

C_WaitNoSpin(me) ==
  /\ pc[me] = "C_wait"
  /\ pc' = [pc EXCEPT ![me] = "C_store"]
  /\ UNCHANGED << env, cfg, smp, rep, logicalPos, whatIDo, chan, stats, timer,
                  at, line, bl, threadTimes, clockOffset, reg, hist >>

\* Line 517: zeroToOther.wait().
C_Wait(me) ==
  /\ pc[me] = "C_wait"
  /\ CanWait("zeroToOther")
  /\ chan' = Waited("zeroToOther", me)
  /\ at' = [at EXCEPT ![me] = SeenAt("zeroToOther", me)]
  /\ pc' = [pc EXCEPT ![me] = "C_store"]
  /\ UNCHANGED << env, cfg, smp, rep, logicalPos, whatIDo, stats, timer, line,
                  bl, threadTimes, clockOffset, reg, hist >>

\* Line 518: otherToZero.send(now), the store of the payload.
C_Store(me) ==
  /\ pc[me] = "C_store"
  /\ chan' = Stored("otherToZero", Clock(me))
  /\ hist' = [hist EXCEPT !.sent = Append(@, Clock(me))]
  /\ pc' = [pc EXCEPT ![me] = "C_send"]
  /\ UNCHANGED << env, cfg, smp, rep, logicalPos, whatIDo, stats, timer, at,
                  line, bl, threadTimes, clockOffset, reg >>

\* Lines 518-519: otherToZero.send(now), the release; then the next trial.
C_Send(me) ==
  /\ pc[me] = "C_send"
  /\ CanRelease("otherToZero")
  /\ chan' = Released("otherToZero", me)
  /\ at' = [at EXCEPT ![me] = SeenAt("otherToZero", me)]
  /\ smp' = [smp EXCEPT ![me] = @ + 1]
  /\ pc' = [pc EXCEPT ![me] = IF smp[me] + 1 < NumTests THEN "C_wait" ELSE "C_b1"]
  /\ UNCHANGED << env, cfg, rep, logicalPos, whatIDo, stats, timer, line, bl,
                  threadTimes, clockOffset, reg, hist >>

\* Lines 523-524, 536-538: computeClockOffset returns; measureVisibilityFrom
\* goes on to its parallel region.
C_Return ==
  /\ proto = "clock"
  /\ \A t \in Threads : pc[t] = "done"
  /\ proto' = IF caller = "visibility" THEN "visibility" ELSE proto
  /\ pc' = [t \in Threads |-> IF caller = "visibility" THEN "V_enter" ELSE "returned"]
  /\ UNCHANGED << proc, caller, nThreads, from, op, modified, opTime, allocateInT0,
                  skew, lat, cfg, smp, rep, logicalPos, whatIDo, chan, stats,
                  timer, at, line, bl, threadTimes, clockOffset, reg, hist >>

NextClock ==
  \/ Barrier
  \/ C_Return
  \/ \E me \in Threads : C_Turn(me)
  \/ \E me \in Threads : C_Start(me)
  \/ \E me \in Threads : C_Release(me)
  \/ \E me \in Threads : C_Recv(me)
  \/ \E me \in Threads : C_Read(me)
  \/ \E me \in Threads : C_End(me)
  \/ \E me \in Threads : C_Wait(me)
  \/ \E me \in Threads : C_Store(me)
  \/ \E me \in Threads : C_Send(me)

SpecClock == InitClock /\ [][NextClock]_vars

InitVisibility == InitClockFor("visibility")

VisibilityRoleExclusive(lp, sharing) ==
  IF lp = 0 THEN "active"
  ELSE IF lp < sharing THEN "polling" ELSE "nothing"

\* Lines 555-558.
VisibilityRole(lp, sharing) ==
  IF lp = 0 THEN "active"
  ELSE IF lp <= sharing THEN "polling" ELSE "nothing"

RECURSIVE LaterFrom(_, _, _, _)
\* Lines 452-453: the latest of maxVal and array[i], ..., array[n - 1].
LaterFrom(array, i, n, maxVal) ==
  IF i < n THEN LaterFrom(array, i + 1, n, Max(maxVal, array[i])) ELSE maxVal

\* Lines 447-456.
LongestInterval(array, n) == LaterFrom(array, 2, n, array[1]) - array[0]

\* Lines 540-546: the thread at logical position 0 allocates the broadcast
\* line and zeroes it.
V_Enter(me) ==
  /\ pc[me] = "V_enter"
  /\ logicalPos' = [logicalPos EXCEPT ![me] = LogicalPos(me)]
  /\ bl' = IF LogicalPos(me) = 0
            THEN [val |-> 0, t |-> at[me], cfg |-> 0, smp |-> 0] ELSE bl
  /\ cfg' = [cfg EXCEPT ![me] = 0]
  /\ pc' = [pc EXCEPT ![me] = "V_b0"]
  /\ UNCHANGED << env, smp, rep, whatIDo, chan, stats, timer, at, line,
                  threadTimes, clockOffset, reg, hist >>

\* Lines 550-559: the head of the loop over sharing, and the thread's role.
V_Cfg(me) ==
  /\ pc[me] = "V_cfg"
  /\ cfg' = [cfg EXCEPT ![me] = @ + 1]
  /\ smp' = [smp EXCEPT ![me] = 0]
  /\ IF cfg[me] + 1 < nThreads
       THEN /\ whatIDo' = [whatIDo EXCEPT ![me] =
                             VisibilityRole(logicalPos[me], cfg[me] + 1)]
            /\ pc' = [pc EXCEPT ![me] = "V_b1"]
       ELSE /\ pc' = [pc EXCEPT ![me] = "done"]
            /\ UNCHANGED whatIDo
  /\ UNCHANGED << env, rep, logicalPos, chan, stats, timer, at, line, bl,
                  threadTimes, clockOffset, reg, hist >>

\* Lines 564-572: the active thread delays, then takes its timestamp.
V_Stamp(me) ==
  /\ pc[me] = "V_phase1"
  /\ whatIDo[me] = "active"
  /\ at' = [at EXCEPT ![me] = @ + DelayTicks]
  /\ threadTimes' = [threadTimes EXCEPT ![0] = at[me] + DelayTicks - skew[me]]
  /\ hist' = [hist EXCEPT !.stampAt = at[me] + DelayTicks]
  /\ pc' = [pc EXCEPT ![me] = "V_store"]
  /\ UNCHANGED << env, cfg, smp, rep, logicalPos, whatIDo, chan, stats, timer,
                  line, bl, clockOffset, reg >>

\* Lines 573-574: the active thread stores 1 to the broadcast line.
V_Store(me) ==
  /\ pc[me] = "V_store"
  /\ bl' = [val |-> 1, t |-> at[me], cfg |-> cfg[me], smp |-> smp[me]]
  /\ pc' = [pc EXCEPT ![me] = "V_b2"]
  /\ UNCHANGED << env, cfg, smp, rep, logicalPos, whatIDo, chan, stats, timer,
                  at, line, threadTimes, clockOffset, reg, hist >>

\* Lines 575-580: a polling thread spins until it sees the line set, then
\* records its corrected timestamp.
V_Poll(me) ==
  /\ pc[me] = "V_phase1"
  /\ whatIDo[me] = "polling"
  /\ bl.val # 0
  /\ LET seen == Max(at[me], bl.t + Latency(from, me))
     IN  /\ at' = [at EXCEPT ![me] = seen]
         /\ threadTimes' = [threadTimes EXCEPT ![logicalPos[me]] =
                              (seen - skew[me]) + clockOffset[me]]
  /\ pc' = [pc EXCEPT ![me] = "V_b2"]
  /\ UNCHANGED << env, cfg, smp, rep, logicalPos, whatIDo, chan, stats, timer,
                  line, bl, clockOffset, reg, hist >>

\* Lines 581-582: the other threads do nothing.
V_Idle(me) ==
  /\ pc[me] = "V_phase1"
  /\ whatIDo[me] = "nothing"
  /\ pc' = [pc EXCEPT ![me] = "V_b2"]
  /\ UNCHANGED << env, cfg, smp, rep, logicalPos, whatIDo, chan, stats, timer,
                  at, line, bl, threadTimes, clockOffset, reg, hist >>

V_Phase2AddAll(me) ==
  /\ pc[me] = "V_phase2"
  /\ IF whatIDo[me] = "active"
       THEN LET elapsed == LongestInterval(threadTimes, cfg[me])
            IN  /\ bl' = [val |-> 0, t |-> at[me], cfg |-> cfg[me], smp |-> smp[me]]
                /\ stats' = [stats EXCEPT ![cfg[me]] = AddSample(@, elapsed)]
                /\ hist' = [hist EXCEPT !.samples = @ + 1, !.sharing = cfg[me],
                                        !.times = threadTimes, !.elapsed = elapsed]
       ELSE UNCHANGED << bl, stats, hist >>
  /\ smp' = [smp EXCEPT ![me] = @ + 1]
  /\ pc' = [pc EXCEPT ![me] = IF smp[me] + 1 < NumSamples THEN "V_b1" ELSE "V_cfg"]
  /\ UNCHANGED << env, cfg, rep, logicalPos, whatIDo, chan, timer, at, line,
                  threadTimes, clockOffset, reg >>

\* Lines 585-603: the active thread resets the line and adds the elapsed
\* time, if positive, to stats[sharing]; then the next sample, or the next
\* sharing.
V_Phase2(me) ==
  /\ pc[me] = "V_phase2"
  /\ IF whatIDo[me] = "active"
       THEN LET elapsed == LongestInterval(threadTimes, cfg[me])
            IN  /\ bl' = [val |-> 0, t |-> at[me], cfg |-> cfg[me], smp |-> smp[me]]
                /\ stats' = IF elapsed > 0
                             THEN [stats EXCEPT ![cfg[me]] = AddSample(@, elapsed)]
                             ELSE stats
                /\ hist' = [hist EXCEPT !.samples = @ + 1, !.sharing = cfg[me],
                                        !.times = threadTimes, !.elapsed = elapsed]
       ELSE UNCHANGED << bl, stats, hist >>
  /\ smp' = [smp EXCEPT ![me] = @ + 1]
  /\ pc' = [pc EXCEPT ![me] = IF smp[me] + 1 < NumSamples THEN "V_b1" ELSE "V_cfg"]
  /\ UNCHANGED << env, cfg, rep, logicalPos, whatIDo, chan, timer, at, line,
                  threadTimes, clockOffset, reg >>

\* Lines 606-611: after the parallel region, stats[1 ..] are scaled down.
V_Scale ==
  /\ proto = "visibility"
  /\ \A t \in Threads : pc[t] = "done"
  /\ stats' = [i \in Threads |->
                 IF i >= 1 THEN ScaleDown(stats[i], measurementArraySize) ELSE stats[i]]
  /\ pc' = [t \in Threads |-> "returned"]
  /\ UNCHANGED << env, cfg, smp, rep, logicalPos, whatIDo, chan, timer, at,
                  line, bl, threadTimes, clockOffset, reg, hist >>

NextVisibility ==
  \/ NextClock
  \/ V_Scale
  \/ \E me \in Threads : V_Enter(me)
  \/ \E me \in Threads : V_Cfg(me)
  \/ \E me \in Threads : V_Stamp(me)
  \/ \E me \in Threads : V_Store(me)
  \/ \E me \in Threads : V_Poll(me)
  \/ \E me \in Threads : V_Idle(me)
  \/ \E me \in Threads : V_Phase2(me)

SpecVisibility == InitVisibility /\ [][NextVisibility]_vars

\* The visibility protocol on a machine whose clocks agree and whose
\* latencies are all one tick: the logical positions do not depend on time.
InitVisibilityUniform ==
  /\ InitVisibility
  /\ \A t \in Threads : skew[t] = 0 /\ lat[t] = [out |-> 1, back |-> 1]

\* The sharing and the visibility protocols together.
SpecPositions ==
  (InitSharing \/ InitVisibilityUniform) /\ [][NextSharing \/ NextVisibility]_vars

\* C1: in the sharing and visibility protocols the logical positions the
\* threads compute, (threadId + nThreads - source) mod nThreads, lie in
\* 0 .. nThreads-1, differ between different threads, cover 0 .. nThreads-1
\* once every thread has computed its own, and the source thread's is 0.
C1_LogicalPosBijection ==
  proto \in {"sharing", "visibility"} =>
    /\ \A t \in Placed : logicalPos[t] \in 0 .. nThreads - 1
    /\ \A t, u \in Placed : logicalPos[t] = logicalPos[u] => t = u
    /\ from \in Placed => logicalPos[from] = 0
    /\ Placed = Threads => {logicalPos[t] : t \in Threads} = 0 .. nThreads - 1

C1_Witness ==
  /\ proto = "visibility"
  /\ nThreads = 3
  /\ from = 2
  /\ logicalPos = [t \in Threads |-> << 1, 2, 0 >>[t + 1]]

\* The latest of a non-empty set of times.
Latest(S) == CHOOSE x \in S : \A y \in S : y <= x

\* C8: for every visibility sample the elapsed time the source computes is the
\* latest corrected arrival time over the polling positions 1 .. sharing,
\* position sharing included, minus the source's store timestamp.
C8_ElapsedCoversAllPollers ==
  (proto = "visibility" /\ hist.samples > 0) =>
    hist.elapsed =
      Latest({hist.times[p] : p \in 1 .. hist.sharing}) - hist.times[0]

\* C9: in each visibility sample a poller that can leave its spin sees the
\* store of that same sample, made after the source's timestamp, and once the
\* clock offsets equal the true skews the elapsed time is never negative.
C9_SameSampleNonNegative ==
  proto = "visibility" =>
    /\ \A t \in Threads :
         (pc[t] = "V_phase1" /\ whatIDo[t] = "polling" /\ bl.val # 0) =>
           /\ bl.cfg = cfg[t]
           /\ bl.smp = smp[t]
           /\ hist.stampAt <= bl.t
    /\ (hist.samples > 0 /\ \A t \in Threads : clockOffset[t] = skew[t]) =>
         hist.elapsed >= 0

(***************************************************************************)
(* The phases of a sample of measureSharingFrom.                           *)
(***************************************************************************)
\* The number of samples a thread has behind it (lines 253, 265).
SampleIdx(t) == (cfg[t] - 1) * NumSamples + smp[t]

\* The phase a label belongs to: 1 flush (lines 267-274), 2 seeding (lines
\* 277-287), 3 setup loads (lines 290-296), 4 the timed operation (lines
\* 298-306); 0 before the first barrier of a sample.
PhaseNo(l) ==
  CASE l \in {"S_flush", "S_b2"} -> 1
    [] l \in {"S_owner", "S_b3"} -> 2
    [] l \in {"S_setup", "S_b4"} -> 3
    [] l = "S_timed" -> 4
    [] OTHER -> 0

\* How far a thread has come: twice the number of phases begun, plus one
\* when it has finished the last of them and waits at the barrier.
Progress(t) ==
  IF pc[t] = "S_enter" THEN 0
  ELSE 2 * (SampleIdx(t) * 4 + PhaseNo(pc[t]))
         + (IF IsBarrier(pc[t]) \/ pc[t] = "done" THEN 1 ELSE 0)

\* The phase an event of the history belongs to.
PhaseOfEvent(e) ==
  CASE e.what = "flush" -> 1
    [] e.what = "seed" -> 2
    [] e.what = "load" -> 3
    [] e.what = "timed" -> 4

\* The role that acts in a phase.
RoleOfEvent(e) ==
  CASE e.what = "flush" -> "active"
    [] e.what = "seed" -> "setupOwner"
    [] e.what = "load" -> "setup"
    [] e.what = "timed" -> "active"

\* The events of phase k in the history of the current sample.
EventsOf(k) == {i \in 1 .. Len(hist) : PhaseOfEvent(hist[i]) = k}

\* C11: in the sharing protocol all threads are in the same phase of the same
\* sample, each either working in it or waiting at the barrier that ends it;
\* within a sample the flush by the active thread comes first, then the
\* seeding by the setup owner, then the loads by the setup threads, then the
\* timed operation by the active thread; and a thread that works in phase k
\* finds the work of every phase before k of that sample complete.
C11_SharingPhasesInOrder ==
  (proto = "sharing" /\ \A t \in Threads : pc[t] # "returned") =>
    /\ \E g \in 0 .. 4 * NumSamples * MaxThreads + 1 :
         \A t \in Threads : Progress(t) \in {2 * g, 2 * g + 1}
    /\ \A i \in 1 .. Len(hist) :
         /\ SharingRole(logicalPos[hist[i].who], hist[i].reach) = RoleOfEvent(hist[i])
         /\ hist[i].reach = hist[1].reach /\ hist[i].sample = hist[1].sample
         /\ i > 1 => PhaseOfEvent(hist[i - 1]) <= PhaseOfEvent(hist[i])
    /\ Cardinality(EventsOf(1)) <= 1
    /\ Cardinality(EventsOf(2)) <= 1
    /\ Cardinality(EventsOf(4)) <= 1
    /\ \A t \in Threads :
         PhaseNo(pc[t]) >= 2 =>
           /\ Len(hist) >= 1 /\ hist[1].what = "flush"
           /\ hist[1].reach = cfg[t] /\ hist[1].sample = smp[t]
           /\ \A i \in 1 .. Len(hist) : PhaseOfEvent(hist[i]) <= PhaseNo(pc[t])
           /\ PhaseNo(pc[t]) >= 3 => Cardinality(EventsOf(2)) = 1
           /\ PhaseNo(pc[t]) >= 4 => Cardinality(EventsOf(3)) = cfg[t] - 1

C11_Witness ==
  /\ proto = "sharing"
  /\ nThreads = 3
  /\ \A t \in Threads : pc[t] = "S_b1" /\ cfg[t] = 2 /\ smp[t] = 1
  /\ Len(hist) = 4
  /\ hist[1].what = "flush"
  /\ hist[2].what = "seed"
  /\ hist[3].what = "load"
  /\ hist[4].what = "timed"

(***************************************************************************)
(* The samples of measurePlacementFrom.                                    *)
(***************************************************************************)
\* The events of one placement sample, in the order the handshake of lines
\* 206-214 and 221-228 gives them.
SampleOrder == << "flush", "seed", "timed" >>

\* C12: in the placement protocol stats[from] never receives a sample and no
\* stats[p] more than NumSamples; when the parallel region is over every
\* stats[p] with p # from holds exactly NumSamples; and the events of a sample
\* are the source's flush, then the state setting by the thread at the
\* placement, then the source's timed operation: the passive thread sets the
\* state only while the source, its flush done, waits for the reply.
C12_PlacementSamples ==
  proto = "placement" =>
    /\ stats[from].n = 0
    /\ \A p \in Threads : stats[p].n <= NumSamples
    /\ (\A t \in Threads : pc[t] \in {"done", "returned"}) =>
         \A p \in Threads \ {from} : stats[p].n = NumSamples
    /\ Len(hist) <= 3
    /\ \A i \in 1 .. Len(hist) :
         /\ hist[i].what = SampleOrder[i]
         /\ hist[i].reach = hist[1].reach
         /\ hist[i].sample = hist[1].sample
         /\ hist[i].who = IF i = 2 THEN hist[i].reach ELSE from
         /\ hist[i].reach # from
    /\ \A t \in Threads :
         /\ pc[t] = "P_state" =>
              /\ pc[from] = "P_waitReply"
              /\ hist = << [who |-> from, what |-> "flush",
                            reach |-> cfg[t], sample |-> smp[t]] >>
         /\ pc[t] = "P_timed" =>
              /\ Len(hist) = 2
              /\ hist[2] = [who |-> cfg[t], what |-> "seed",
                            reach |-> cfg[t], sample |-> smp[t]]

C12_Witness ==
  /\ proto = "placement"
  /\ nThreads = 3
  /\ from = 1
  /\ \A t \in Threads : pc[t] = "returned"
  /\ stats[0].n = NumSamples
  /\ stats[1].n = 0
  /\ stats[2].n = NumSamples
  /\ Len(hist) = 3
  /\ hist[2].who = 2

\* A step of the sharing protocol that adds to the count of stats[r] is the
\* timed operation of the active thread in reach r, and adds one sample.
SharingSampleByActive ==
  \A r \in Threads :
    stats'[r].n # stats[r].n =>
      /\ stats'[r].n = stats[r].n + 1
      /\ \E t \in Threads :
           /\ pc[t] = "S_timed" /\ pc'[t] # pc[t]
           /\ whatIDo[t] = "active" /\ logicalPos[t] = 0
           /\ cfg[t] = r

\* C13: the sharing protocol takes the reach r through 1 .. nThreads-1 in
\* order; stats[0] receives no sample, no stats[r] more than NumSamples, and a
\* reach is begun only when the one before it has all of its samples; when the
\* parallel region is over every stats[r] with 1 <= r < nThreads holds exactly
\* NumSamples samples; and every sample is added by the active thread.
C13_SharingSweep ==
  /\ [](proto = "sharing" =>
         /\ stats[0].n = 0
         /\ \A r \in Threads : stats[r].n <= NumSamples
         /\ \A t \in Threads : pc[t] # "S_enter" => cfg[t] \in 1 .. nThreads
         /\ \A r \in 2 .. nThreads - 1 :
              stats[r].n > 0 => stats[r - 1].n = NumSamples
         /\ (\A t \in Threads : pc[t] \in {"done", "returned"}) =>
              \A r \in 1 .. nThreads - 1 : stats[r].n = NumSamples)
  /\ [][proto = "sharing" => SharingSampleByActive]_vars

C13_Witness ==
  /\ proto = "sharing"
  /\ nThreads = 3
  /\ from = 2
  /\ \A t \in Threads : pc[t] = "returned"
  /\ stats[0].n = 0
  /\ stats[1].n = NumSamples
  /\ stats[2].n = NumSamples

\* The visibility protocol on the machine whose clocks agree.
SpecVisibilityUniform == InitVisibilityUniform /\ [][NextVisibility]_vars

\* The labels of a visibility sample, where the thread has its role.
InVisibilitySample(t) ==
  pc[t] \in {"V_b1", "V_phase1", "V_store", "V_b2", "V_phase2"}

\* C14: in the visibility protocol a thread that is in a sample of `sharing`
\* pollers is active when its logical position is 0, polling when it is in
\* 1 .. sharing, and does nothing otherwise; when the whole team is in the
\* samples of one sharing, there are one active thread, exactly sharing
\* polling threads and nThreads - 1 - sharing threads that do nothing.
C14_VisibilityRoles ==
  proto = "visibility" =>
    /\ \A t \in Threads :
         InVisibilitySample(t) =>
           /\ cfg[t] \in 1 .. nThreads - 1
           /\ whatIDo[t] = "active" <=> logicalPos[t] = 0
           /\ whatIDo[t] = "polling" <=> logicalPos[t] \in 1 .. cfg[t]
           /\ whatIDo[t] = "nothing" <=> logicalPos[t] \in cfg[t] + 1 .. nThreads - 1
    /\ \A r \in 1 .. nThreads - 1 :
         (\A t \in Threads : InVisibilitySample(t) /\ cfg[t] = r) =>
           /\ Doing("active") = {from}
           /\ Doing("polling") = AtPos(1 .. r)
           /\ Cardinality(Doing("polling")) = r
           /\ Cardinality(Doing("nothing")) = nThreads - 1 - r

C14_Witness ==
  /\ proto = "visibility"
  /\ nThreads = 3
  /\ from = 1
  /\ \A t \in Threads : pc[t] = "V_phase1" /\ cfg[t] = 1
  /\ whatIDo = [t \in Threads |-> << "nothing", "active", "polling" >>[t + 1]]

(***************************************************************************)
(* main.  A call of a measurement function is one step of main; the team   *)
(* inside the call is what the protocols above describe.  stdout and       *)
(* stderr hold the messages written, the progress dots left out; a block   *)
(* of statistics rows is one message that carries the labels of its rows.  *)
(***************************************************************************)
Rows(labels) == [text |-> "rows", rows |-> labels]

\* The argument vectors: argc, the characters of argv[1] (any character the
\* program does not know is "x"), and atoi(argv[2]).
Tests == {"L", "M", "N", "P", "S", "R", "V", "x"}

Argvs ==
  {[argc |-> 1]}
    \cup
  {a \in [argc : {2, 3}, test : Tests, second : {"r", "w", "a", "x"},
          third : {"u", "m", "x"}, fourth : {"0", "x"}, n : {-1, 0, 1}] :
     /\ a.argc = 2 => a.n = 0
     /\ a.test \notin {"P", "S", "R", "V"} => a.n = 0
     /\ a.test \notin {"P", "S", "R"} => a.second = "x"
     /\ a.test \notin {"P", "S"} => a.third = "x"
     /\ a.test # "P" => a.fourth = "x"}

\* Lines 677-679: the process starts.
InitMain ==
  /\ proto = "main"
  /\ caller = "main"
  /\ nThreads \in {1, MAX_THREADS + 1} \cup (2 .. MaxThreads)
  /\ argv \in Argvs
  /\ aligned \in BOOLEAN
  /\ mpc = "threads"
  /\ page = 0
  /\ measureFn = "none"
  /\ iter = 0
  /\ stdout = << >>
  /\ stderr = << >>
  /\ status = -1
  /\ calls = 0
  /\ from = 0
  /\ op = "none"
  /\ modified = FALSE
  /\ opTime = 0
  /\ allocateInT0 = FALSE
  /\ skew = << >>
  /\ lat = << >>
  /\ pc = << >>
  /\ cfg = << >>
  /\ smp = << >>
  /\ rep = << >>
  /\ logicalPos = << >>
  /\ whatIDo = << >>
  /\ chan = << >>
  /\ stats = << >>
  /\ timer = << >>
  /\ at = << >>
  /\ line = [holders |-> {}, modifiedBy |-> -1]
  /\ bl = [val |-> 0, t |-> 0, cfg |-> 0, smp |-> 0]
  /\ threadTimes = << >>
  /\ clockOffset = << >>
  /\ reg = [Tstart |-> 0, Tother |-> 0, Tend |-> 0, sum2 |-> 0, n |-> 0]
  /\ hist = << >>

\* What main leaves alone: the state of the team inside a call.
team == << caller, nThreads, opTime, skew, lat, pc, cfg, smp, rep, logicalPos,
           whatIDo, chan, stats, timer, at, line, bl, threadTimes, clockOffset,
           reg, hist, proto, argv, aligned >>

\* return code: the process ends with that status.
Return(code) ==
  /\ status' = code
  /\ mpc' = "exited"

\* Lines 681-690: the checks of the thread count.
M_Threads ==
  /\ mpc = "threads"
  /\ IF nThreads > MAX_THREADS
       THEN /\ stdout' = Append(stdout, Msg("threads available, increase MAX_THREADS"))
            /\ Return(1)
       ELSE IF nThreads < 2
       THEN /\ stdout' = Append(stdout, Msg("Need more than one thread"))
            /\ Return(1)
       ELSE /\ mpc' = "args"
            /\ UNCHANGED << stdout, status >>
  /\ UNCHANGED << team, from, op, modified, allocateInT0, page, measureFn, iter,
                  stderr, calls >>

\* Lines 692-696: the check of the argument count.
M_Args ==
  /\ mpc = "args"
  /\ IF argv.argc < 2
       THEN /\ stdout' = stdout \o << Msg("Need an argument"), Msg("help") >>
            /\ Return(1)
       ELSE /\ mpc' = "array"
            /\ UNCHANGED << stdout, status >>
  /\ UNCHANGED << team, from, op, modified, allocateInT0, page, measureFn, iter,
                  stderr, calls >>

\* Line 43: the diagnostic of the thread whose sched_setaffinity failed.
AffinityMsg(t) == [text |-> "Failed to force affinity for thread", rows |-> << t >>]

\* Lines 30-49, 706-708: the threads whose binding fails, in the order their
\* diagnostics reach standard error; none where forceAffinity() is empty or
\* every binding succeeds.
AffinityFailures ==
  UNION {{s \in [1 .. k -> Threads] : \A i, j \in 1 .. k : i # j => s[i] # s[j]} :
           k \in 0 .. nThreads}

\* Lines 93-98 and 706-714: the warm-up, in which every thread tries to bind
\* itself, the allocation of the array to measure and the checks of its
\* alignment; exit(1) when it is not aligned.
M_Array ==
  /\ mpc = "array"
  /\ \E failed \in AffinityFailures :
       LET bound == stderr \o [i \in 1 .. Len(failed) |-> AffinityMsg(failed[i])]
       IN  IF ~aligned
             THEN /\ stderr' = Append(bound, Msg("Array is not aligned as required"))
                  /\ Return(1)
             ELSE /\ stderr' = bound
                  /\ mpc' = "switch"
                  /\ UNCHANGED status
  /\ UNCHANGED << team, from, op, modified, allocateInT0, page, measureFn, iter,
                  stdout, calls >>

\* Lines 745-750, 809-820, 911-925, 967-970, 1011: the switch on argv[1][0].
M_Switch ==
  /\ mpc = "switch"
  /\ LET n == IF argv.argc > 2 THEN argv.n ELSE 0
     IN  CASE argv.test = "L" ->
                /\ measureFn' = "measureLinePlacement"
                /\ mpc' = "lineWarm"
                /\ UNCHANGED << from, iter >>
           [] argv.test = "M" ->
                /\ measureFn' = "measureMemory"
                /\ mpc' = "memory"
                /\ UNCHANGED << from, iter >>
           [] argv.test = "N" ->
                /\ measureFn' = "measureWrites"
                /\ mpc' = "writes"
                /\ UNCHANGED << from, iter >>
           [] argv.test \in {"P", "S"} ->
                /\ measureFn' = IF argv.test = "P" THEN "measurePlacementFrom"
                                                   ELSE "measureSharingFrom"
                /\ mpc' = "parse"
                /\ UNCHANGED << from, iter >>
           [] argv.test = "R" ->
                /\ measureFn' = IF argv.second = "a"
                                  THEN "measureRoundtripFrom<atomicSyncOnlyChannel>"
                                  ELSE "measureRoundtripFrom<syncOnlyChannel>"
                /\ from' = n
                /\ iter' = 0
                /\ mpc' = IF n < 0 THEN "all" ELSE "single"
           [] argv.test = "V" ->
                /\ measureFn' = "measureVisibilityFrom"
                /\ from' = n
                /\ iter' = 0
                /\ mpc' = IF n < 0 THEN "all" ELSE "single"
           [] OTHER ->
                /\ mpc' = "default"
                /\ UNCHANGED << measureFn, from, iter >>
  /\ UNCHANGED << team, op, modified, allocateInT0, page, stdout, stderr,
                  status, calls >>

\* Lines 822-858: the operation, the state of the line, the allocation and
\* the source of a placement or sharing run.
M_Parse ==
  /\ mpc = "parse"
  /\ LET n == IF argv.argc > 2 THEN argv.n ELSE 0
     IN  IF argv.second \notin {"r", "w", "a"}
           THEN /\ stdout' = stdout \o << Msg("*** Unknown second character"), Msg("help") >>
                /\ Return(1)
                /\ UNCHANGED << op, modified, allocateInT0, from, iter >>
         ELSE IF argv.third \notin {"u", "m"}
           THEN /\ stdout' = stdout \o << Msg("*** Unkown third character"), Msg("help") >>
                /\ Return(1)
                /\ UNCHANGED << op, modified, allocateInT0, from, iter >>
         ELSE /\ op' = CASE argv.second = "r" -> "doLoads"
                         [] argv.second = "w" -> "doStores"
                         [] argv.second = "a" -> "doAtomicIncs"
              /\ modified' = (argv.third = "m")
              /\ allocateInT0' = (measureFn = "measurePlacementFrom" /\ argv.fourth = "0")
              /\ from' = n
              /\ iter' = 0
              /\ mpc' = IF n < 0 THEN "all" ELSE "single"
              /\ UNCHANGED << stdout, status >>
  /\ UNCHANGED << team, page, measureFn, stderr, calls >>

\* Lines 1011-1014: no such experiment.
M_Default ==
  /\ mpc = "default"
  /\ stdout' = stdout \o << Msg("Unknown experiment"), Msg("help") >>
  /\ Return(1)
  /\ UNCHANGED << team, from, op, modified, allocateInT0, page, measureFn, iter,
                  stderr, calls >>

RECURSIVE Ascending(_)
\* The members of a set of numbers in ascending order.
Ascending(S) ==
  IF S = {} THEN << >>
  ELSE LET m == CHOOSE x \in S : \A y \in S : x <= y
       IN  << m >> \o Ascending(S \ {m})

\* Lines 884-891, 947-952, 992-995: the rows printed for one source when all
\* sources are measured.
RowsOfSource(fn, source) ==
  CASE fn = "measurePlacementFrom" -> Ascending((0 .. nThreads - 1) \ {source})
    [] fn = "measureSharingFrom" -> Ascending(1 .. nThreads - 1)
    [] fn = "measureVisibilityFrom" -> Ascending(1 .. nThreads - 1)
    [] OTHER -> Ascending((0 .. nThreads - 1) \ {source})

\* Lines 186-197: what the check of the array a placement call allocates
\* locally can find, aligned (TRUE) or not; a call that allocates nothing
\* has nothing to find misaligned.
LocalAllocations ==
  IF measureFn = "measurePlacementFrom" /\ ~allocateInT0 THEN BOOLEAN ELSE {TRUE}

\* Lines 863-892, 929-953, 975-996: one turn of the loop over all sources;
\* return 0 after the last.
M_All ==
  /\ mpc = "all"
  /\ IF iter < nThreads
       THEN /\ from' = iter
            /\ calls' = calls + 1
            /\ \E ok \in LocalAllocations :
                 IF ok
                   THEN /\ stdout' = stdout
                                       \o (IF iter # 0 THEN << Msg("### NEW EXPERIMENT ###") >>
                                                       ELSE << >>)
                                       \o << Msg("header"),
                                             Rows(RowsOfSource(measureFn, iter)) >>
                        /\ iter' = iter + 1
                        /\ UNCHANGED << mpc, status, stderr >>
                   ELSE /\ stderr' = Append(stderr, Msg("Array is not aligned as required"))
                        /\ Return(1)
                        /\ UNCHANGED << stdout, iter >>
       ELSE /\ Return(0)
            /\ UNCHANGED << from, calls, stdout, iter, stderr >>
  /\ UNCHANGED << team, op, modified, allocateInT0, page, measureFn >>

\* Lines 896-907, 957-965, 1001-1008: the measurement from one source and its
\* header.
M_Single ==
  /\ mpc = "single"
  /\ calls' = calls + 1
  /\ \E ok \in LocalAllocations :
       IF ok
         THEN /\ stdout' = Append(stdout, Msg("header"))
              /\ mpc' = "print"
              /\ UNCHANGED << stderr, status >>
         ELSE /\ stderr' = Append(stderr, Msg("Array is not aligned as required"))
              /\ Return(1)
              /\ UNCHANGED stdout
  /\ UNCHANGED << team, from, op, modified, allocateInT0, page, measureFn, iter >>

\* Lines 741, 749, 805, 916: numStats.
NumStats(fn) ==
  CASE fn = "measureLinePlacement" -> NumChannels
    [] fn = "measureWrites" -> 31
    [] fn \in {"measureRoundtripFrom<atomicSyncOnlyChannel>",
               "measureRoundtripFrom<syncOnlyChannel>"} -> nThreads
    [] OTHER -> nThreads - 1

\* Lines 743, 750, 915, 1001: IdxOffset.
IdxOffset(fn) ==
  IF fn \in {"measureLinePlacement", "measureRoundtripFrom<atomicSyncOnlyChannel>",
             "measureRoundtripFrom<syncOnlyChannel>"}
    THEN 0 ELSE 1

\* Lines 661-669: the rows printStats(&stats[offset], count, offset) prints.
PrintStats(count, offset) == Rows([i \in 1 .. count |-> i - 1 + offset])

\* Lines 1016-1017: the statistics are printed and main returns 0.
M_PrintStats ==
  /\ mpc = "print"
  /\ stdout' = Append(stdout, PrintStats(NumStats(measureFn), IdxOffset(measureFn)))
  /\ Return(0)
  /\ UNCHANGED << team, from, op, modified, allocateInT0, page, measureFn, iter,
                  stderr, calls >>

\* Lines 369-383 and 395-400: a call of measureLinePlacement allocates the
\* page when there is none; when malloc fails (ok is false) it writes the
\* diagnostic and returns without measuring.
LinePlacementCall(ok) ==
  IF page = 0 /\ ~ok
    THEN /\ stderr' = Append(stderr, Msg("Cannot allocate a page"))
         /\ UNCHANGED << page, calls >>
    ELSE /\ page' = 1
         /\ calls' = calls + 1
         /\ UNCHANGED stderr

\* Line 752: the warm-up call.
M_LineWarm ==
  /\ mpc = "lineWarm"
  /\ \E ok \in BOOLEAN : LinePlacementCall(ok)
  /\ iter' = 0
  /\ mpc' = "lineRun"
  /\ UNCHANGED << team, from, op, modified, allocateInT0, measureFn, stdout,
                  status >>

\* Lines 754-767: one of the five runs and its output; return 0 after the
\* last.
M_LineRun ==
  /\ mpc = "lineRun"
  /\ IF iter < LineRuns
       THEN /\ \E ok \in BOOLEAN : LinePlacementCall(ok)
            /\ stdout' = stdout
                           \o (IF iter # 0 THEN << Msg("### NEW EXPERIMENT ###") >> ELSE << >>)
                           \o << Msg("header"),
                                 PrintStats(NumStats(measureFn), IdxOffset(measureFn)) >>
            /\ iter' = iter + 1
            /\ UNCHANGED << mpc, status >>
       ELSE /\ Return(0)
            /\ UNCHANGED << page, calls, stderr, stdout, iter >>
  /\ UNCHANGED << team, from, op, modified, allocateInT0, measureFn >>

\* Lines 770-794: the memory latencies.
M_Memory ==
  /\ mpc = "memory"
  /\ calls' = calls + 4
  /\ stdout' = stdout \o << Msg("header"), Msg("Load"), Msg("Store"),
                            Msg("Remote Load"), Msg("Remote Store") >>
  /\ Return(0)
  /\ UNCHANGED << team, from, op, modified, allocateInT0, page, measureFn, iter,
                  stderr >>

\* Lines 796-807: the time for N writes.
M_Writes ==
  /\ mpc = "writes"
  /\ stderr' = Append(stderr, Msg("###BEWARE the write test doesn't seem to work###"))
  /\ stdout' = Append(stdout, Msg("header"))
  /\ calls' = calls + 1
  /\ mpc' = "print"
  /\ UNCHANGED << team, from, op, modified, allocateInT0, page, measureFn, iter,
                  status >>

NextMain ==
  \/ M_Threads
  \/ M_Args
  \/ M_Array
  \/ M_Switch
  \/ M_Parse
  \/ M_Default
  \/ M_All
  \/ M_Single
  \/ M_PrintStats
  \/ M_LineWarm
  \/ M_LineRun
  \/ M_Memory
  \/ M_Writes

SpecMain == InitMain /\ [][NextMain]_vars

\* The messages of a stream that are blocks of statistics rows.
RowBlocks(stream) == {i \in 1 .. Len(stream) : stream[i].text = "rows"}

\* How often a diagnostic has been written to a stream.
Count(stream, text) == Cardinality({i \in 1 .. Len(stream) : stream[i].text = text})

\* C15: once the page of channels could not be allocated the failure has been
\* reported once, no further call is attempted, no statistics are printed and
\* the process does not end with status 0.
C15_AllocationFailureFatal ==
  (proto = "main" /\ Count(stderr, "Cannot allocate a page") > 0) =>
    /\ Count(stderr, "Cannot allocate a page") = 1
    /\ RowBlocks(stdout) = {}
    /\ status # 0

\* The configuration errors: an unsupported thread count, a misaligned array,
\* an unknown experiment, an unknown operation or line state.
BadThreadCount == nThreads > MAX_THREADS \/ nThreads < 2

BadSelector ==
  /\ argv.argc >= 2
  /\ \/ argv.test \notin {"L", "M", "N", "P", "S", "R", "V"}
     \/ argv.test \in {"P", "S"} /\ argv.second \notin {"r", "w", "a"}
     \/ argv.test \in {"P", "S"} /\ argv.third \notin {"u", "m"}

ConfigurationError ==
  \/ BadThreadCount
  \/ argv.argc >= 2 /\ ~aligned
  \/ BadSelector

\* Standard error holds a diagnostic other than those of the warm-up.
Diagnosed ==
  \E i \in 1 .. Len(stderr) : stderr[i].text # "Failed to force affinity for thread"

\* C16: a run with a configuration error never calls a measurement function,
\* and when it has ended its status is not 0, a diagnostic is on standard
\* error and nothing is on standard output.
C16_ConfigurationErrorsFatal ==
  (proto = "main" /\ ConfigurationError) =>
    /\ calls = 0
    /\ status # 0
    /\ mpc = "exited" => (status > 0 /\ Diagnosed /\ stdout = << >>)

\* The visibility protocol on a machine where one latency holds between all
\* threads and only the source's clock may differ from thread 0's.
InitVisibilitySkewed ==
  /\ InitVisibility
  /\ \A t \in Threads : t # from => skew[t] = 0
  /\ \E l \in LatValues :
       \A t \in Threads :
         lat[t] = IF t = 0 THEN [out |-> IF from = 0 THEN 1 ELSE l, back |-> 1]
                           ELSE [out |-> l, back |-> l]

\* That protocol under fair scheduling of the team.
SpecVisibilityFair ==
  InitVisibilitySkewed /\ [][NextVisibility]_vars /\ WF_vars(NextVisibility)

\* A step that ends a visibility sample adds its elapsed time to
\* stats[sharing] when it is positive and leaves the statistics alone when it
\* is not; either way the active thread goes on to the next sample.
VisibilitySampleTaken ==
  hist'.samples # hist.samples =>
    /\ hist'.samples = hist.samples + 1
    /\ IF hist'.elapsed > 0
         THEN stats' = [stats EXCEPT ![hist'.sharing] = AddSample(@, hist'.elapsed)]
         ELSE stats' = stats
    /\ pc'[from] \in {"V_b1", "V_cfg"}
    /\ status' = -1 /\ stderr' = stderr

\* C17: in the visibility protocol a sample whose elapsed time is not positive
\* adds nothing to the statistics and the run goes on, to its end; a sample
\* whose elapsed time is positive is added once to stats[sharing]; so no
\* stats[sharing] ever holds more than NumSamples samples.
C17_NonPositiveSamplesExcluded ==
  /\ [][proto = "visibility" => VisibilitySampleTaken]_vars
  /\ [](proto = "visibility" => \A r \in Threads : stats[r].n <= NumSamples)
  /\ <>(\A t \in Threads : pc[t] = "returned")

C17_Witness ==
  /\ proto = "visibility"
  /\ nThreads = 3
  /\ \A t \in Threads : pc[t] = "returned"
  /\ hist.samples = 2 * NumSamples
  /\ hist.elapsed <= 0
  /\ stats[1].n = 0
  /\ stats[2].n < NumSamples

(***************************************************************************)
(* Who may touch the shared cells.                                         *)
(***************************************************************************)
\* The sharing, placement and visibility protocols together.
SpecCells ==
  (InitSharing \/ InitPlacement \/ InitVisibilityUniform)
    /\ [][NextSharing \/ NextPlacement \/ NextVisibility]_vars

\* Thread t is at a step that accesses the measured array: the flush, the
\* seeding, a setup load or the timed operation of sharing (lines 270,
\* 280-283, 292, 302); the allocation, the flush, the state setting or the
\* timed operation of placement (lines 192-195, 206, 223-226, 214).
TouchesArray(t) ==
  \/ /\ proto = "sharing"
     /\ \/ pc[t] = "S_flush" /\ whatIDo[t] = "active"
        \/ pc[t] = "S_owner" /\ whatIDo[t] = "setupOwner"
        \/ pc[t] = "S_setup" /\ whatIDo[t] = "setup"
        \/ pc[t] = "S_timed" /\ whatIDo[t] = "active"
  \/ /\ proto = "placement"
     /\ \/ pc[t] = "P_alloc" /\ t = from
        \/ pc[t] \in {"P_flush", "P_state", "P_timed"}

\* Thread t is at a step that may write the measured array.
WritesArray(t) ==
  \/ /\ proto = "sharing"
     /\ \/ pc[t] = "S_owner" /\ whatIDo[t] = "setupOwner" /\ modified
        \/ pc[t] = "S_timed" /\ whatIDo[t] = "active" /\ op # "doLoads"
  \/ /\ proto = "placement"
     /\ \/ pc[t] = "P_alloc" /\ t = from
        \/ pc[t] = "P_state" /\ modified
        \/ pc[t] = "P_timed" /\ op # "doLoads"

\* Thread t is at a step that resets the broadcast line (lines 544, 589).
ResetsLine(t) ==
  /\ proto = "visibility"
  /\ \/ pc[t] = "V_enter" /\ LogicalPos(t) = 0
     \/ pc[t] = "V_phase2" /\ whatIDo[t] = "active"

\* Thread t is at a step that writes the broadcast line (lines 544, 573, 589).
WritesLine(t) == ResetsLine(t) \/ (proto = "visibility" /\ pc[t] = "V_store")

\* C18: in the sharing and placement protocols, while a thread is at a step
\* that may write the measured array no other thread is at a step that
\* accesses it; in the visibility protocol at most one thread is at a step
\* that writes the broadcast line, and none polls it while it is reset.
C18_OneWriterPerCell ==
  \A t, u \in Threads :
    t # u =>
      /\ ~(WritesArray(t) /\ TouchesArray(u))
      /\ ~(WritesLine(t) /\ WritesLine(u))
      /\ ~(ResetsLine(t) /\ pc[u] = "V_phase1" /\ whatIDo[u] = "polling")

C18_Witness ==
  /\ proto = "sharing"
  /\ nThreads = 3
  /\ op = "doStores"
  /\ \A t \in Threads : pc[t] = "S_timed" /\ cfg[t] = 2
  /\ WritesArray(from)

(***************************************************************************)
(* The turns of computeClockOffset.                                        *)
(***************************************************************************)
\* The peers that are in an exchange: at the wait or the send of lines
\* 517-518.
ExchangingPeers ==
  {t \in Threads : t >= 1 /\ pc[t] \in {"C_wait", "C_store", "C_send"}}

\* Thread 0 is in an exchange: lines 475-512.
ZeroExchanging == pc[0] \in {"C_start", "C_release", "C_recv", "C_read", "C_end"}

InitRoleTable ==
  /\ proto = "roleTable"
  /\ caller = "main"
  /\ InitCommon
  /\ NoTimes
  /\ op = "none"
  /\ modified = FALSE
  /\ opTime = 0
  /\ allocateInT0 = FALSE
  /\ chan = << >>
  /\ pc = [t \in Threads |-> "T_pos"]

\* Line 252, for a reach r.
T_Pos(me) ==
  /\ pc[me] = "T_pos"
  /\ \E r \in 0 .. nThreads - 1 :
       /\ \A t \in Threads : pc[t] # "T_pos" => cfg[t] = r
       /\ cfg' = [cfg EXCEPT ![me] = r]
  /\ logicalPos' = [logicalPos EXCEPT ![me] = LogicalPos(me)]
  /\ pc' = [pc EXCEPT ![me] = "T_role"]
  /\ UNCHANGED << env, smp, rep, whatIDo, chan, stats, timer, at, line, bl,
                  threadTimes, clockOffset, reg, hist >>

\* Lines 254-263.
T_Role(me) ==
  /\ pc[me] = "T_role"
  /\ whatIDo' = [whatIDo EXCEPT ![me] = SharingRole(logicalPos[me], cfg[me])]
  /\ pc' = [pc EXCEPT ![me] = "T_done"]
  /\ UNCHANGED << env, cfg, smp, rep, logicalPos, chan, stats, timer, at, line,
                  bl, threadTimes, clockOffset, reg, hist >>

NextRoleTable ==
  \/ \E me \in Threads : T_Pos(me)
  \/ \E me \in Threads : T_Role(me)

SpecRoleTable == InitRoleTable /\ [][NextRoleTable]_vars

\* Every thread has its role for reach r.
RolesFor(r) == \A t \in Threads : pc[t] = "T_done" /\ cfg[t] = r

\* C21, as claimed: for reach 0 the table gives no setup thread, one active
\* thread and one setupOwner.
C21_ReachZeroActivePlusOwner ==
  RolesFor(0) =>
    /\ Doing("setup") = {}
    /\ Cardinality(Doing("active")) = 1
    /\ Cardinality(Doing("setupOwner")) = 1

\* C21, amended: for reach 0 the table gives the active thread and nothing
\* else, no setup thread and no setupOwner, since logical position 0 is
\* active before it is compared with the reach; for reach 1, the smallest of
\* the loop, it gives no setup thread, the active thread and one setupOwner,
\* the thread at logical position 1.
C21_ReachZeroActiveOnly ==
  /\ RolesFor(0) =>
       /\ Doing("active") = {from}
       /\ Doing("setup") = {}
       /\ Doing("setupOwner") = {}
       /\ Doing("nothing") = Threads \ {from}
  /\ RolesFor(1) =>
       /\ Doing("active") = {from}
       /\ Doing("setup") = {}
       /\ Doing("setupOwner") = AtPos({1})
       /\ Cardinality(Doing("setupOwner")) = 1

C21_Witness ==
  /\ proto = "roleTable"
  /\ nThreads = 3
  /\ from = 1
  /\ RolesFor(0)
  /\ whatIDo = [t \in Threads |-> << "nothing", "active", "nothing" >>[t + 1]]

(***************************************************************************)
(* The five protocol bodies under fair scheduling of the team.             *)
(***************************************************************************)
\* One latency holds between the threads other than thread 0 and only the
\* source's clock may differ from thread 0's; the timed operation takes one
\* tick.
UniformMachine ==
  /\ \A t \in Threads : t # from => skew[t] = 0
  /\ \E l \in LatValues :
       \A t \in Threads \ {0} : lat[t] \in {NoLat, [out |-> l, back |-> l]}
  /\ opTime <= 1

InitProtocols ==
  /\ \/ InitSharing
     \/ InitPlacement
     \/ InitRoundtrip
     \/ InitClockFor("main")
     \/ InitVisibilitySkewed
  /\ UniformMachine

NextProtocols == NextSharing \/ NextPlacement \/ NextRoundtrip \/ NextVisibility

SpecProtocolsFair ==
  InitProtocols /\ [][NextProtocols]_vars /\ WF_vars(NextProtocols)

\* The team stands at a barrier.
TeamAtBarrier == \A t \in Threads : IsBarrier(pc[t])

\* The threads of the team stand at the same barrier of the same turn.
SameBarrier == \A t, u \in Threads : pc[t] = pc[u] /\ cfg[t] = cfg[u]

\* Some threads have left the body and all the others wait at a barrier.
LeftBehind ==
  /\ \A t \in Threads : IsBarrier(pc[t]) \/ pc[t] = "done"
  /\ \E t \in Threads : IsBarrier(pc[t])
  /\ \E t \in Threads : pc[t] = "done"

\* C22, as claimed: in placement, sharing, round trip, clock offset
\* estimation and visibility, for every source and every team of two threads
\* or more, the barrier the team passes is the same barrier of the same turn
\* for every thread whatever its role, no thread has left the body while
\* another still is to meet a barrier, and the protocol runs to its end.
C22_ProtocolsRunToCompletion ==
  /\ [](TeamAtBarrier => SameBarrier)
  /\ [](~LeftBehind)
  /\ <>Returned

\* The alignment check of line 195 has ended the process: a placement run
\* with local allocation, the diagnostic on standard error, status 1.
AlignmentExit ==
  /\ mpc = "exited"
  /\ proto = "placement"
  /\ ~allocateInT0
  /\ status = 1
  /\ stderr = << Msg("Array is not aligned as required") >>
  /\ \A t \in Threads : pc[t] = "exited"

\* C22, amended: the same, but that a placement run with local allocation
\* does not run to its end when the array its source allocates is not
\* cache-aligned: then, and only then, the process is ended with exit(1), at
\* line 195, before the first turn.
C22_CompletionOrAlignmentExit ==
  /\ [](TeamAtBarrier => SameBarrier)
  /\ [](~LeftBehind)
  /\ [](mpc = "exited" => AlignmentExit /\ \A i \in Threads : stats[i] = EmptyStat)
  /\ <>(Returned \/ AlignmentExit)

C22_Witness ==
  /\ proto = "placement"
  /\ nThreads = 3
  /\ from = 2
  /\ ~allocateInT0
  /\ Returned
  /\ stats[0].n = NumSamples
  /\ stats[1].n = NumSamples

(***************************************************************************)
(* The time base of the visibility timestamps.                             *)
(***************************************************************************)
\* The reading of thread t's clock at true time T, brought to thread 0's
\* time base with the offset estimated for t, as line 578-579 does for the
\* polling threads.
OnCommonBase(t, T) == (T - skew[t]) + clockOffset[t]

\* C23: in every visibility sample, for every source, the store timestamp the
\* elapsed time starts from is on the same time base as the arrival
\* timestamps of the polling threads, the source's clock corrected by the
\* offset estimated for the source, also when the source is not thread 0.
C23_OneTimeBase ==
  (proto = "visibility" /\ hist.samples > 0) =>
    hist.times[0] = OnCommonBase(from, hist.stampAt)

(***************************************************************************)
(* The channels between one peer's turn and the next.                      *)
(***************************************************************************)
\* The team stands at the barrier that ends a peer's turn (lines 231, 357,
\* 521).
EndOfTurn == \A t \in Threads : pc[t] \in {"P_b1", "R_b1", "C_b1"}

\* No release of channel c waits to be consumed.
ChannelIdle(c) == ~chan[c].flag /\ chan[c].nRel = chan[c].nCon

\* A signal of channel c consumed in this step was released by a thread in
\* the same turn as its consumer.
ConsumedInTurn(c) ==
  chan'[c].nCon # chan[c].nCon => cfg[chan[c].by] = cfg[chan'[c].by]

SignalsStayInTurn == \A c \in DOMAIN chan : ConsumedInTurn(c)

\* C24: in placement, round trip and clock offset estimation, when the team
\* stands at the barrier ending a peer's turn every channel is idle, and
\* every signal is consumed in the turn it was released in, never by the
\* next peer.
C24_ChannelsIdleBetweenTurns ==
  /\ [](EndOfTurn => \A c \in DOMAIN chan : ChannelIdle(c))
  /\ [][(proto \in {"placement", "roundtrip", "clock"}) => SignalsStayInTurn]_vars

C24_Witness ==
  /\ proto = "placement"
  /\ nThreads = 3
  /\ from = 1
  /\ EndOfTurn
  /\ \A t \in Threads : cfg[t] = 0
  /\ \A c \in DOMAIN chan : ChannelIdle(c) /\ chan[c].nRel = NumSamples

(***************************************************************************)
(* The alternation of the clock offset exchange.                           *)
(***************************************************************************)
\* The number of trials begun before trial smp[t] of the turn of thread t.
TrialsBefore(t) == (cfg[t] - 1) * NumTests + smp[t]

\* The peer is between its wait() and the end of its send() of a trial.
PeerSending(t) == pc[t] \in {"C_store", "C_send"}

InitPlacementAny ==
  /\ proto = "placement"
  /\ caller = "main"
  /\ InCall
  /\ nThreads \in 2 .. MaxThreads
  /\ from \in 0 .. nThreads
  /\ cfg = [t \in Threads |-> 0]
  /\ smp = [t \in Threads |-> 0]
  /\ rep = [t \in Threads |-> 0]
  /\ logicalPos = [t \in Threads |-> -1]
  /\ whatIDo = [t \in Threads |-> "unset"]
  /\ stats = [i \in Threads |-> EmptyStat]
  /\ timer = [t \in Threads |-> 0]
  /\ at = [t \in Threads |-> 0]
  /\ line = [holders |-> {0}, modifiedBy |-> 0]
  /\ bl = [val |-> 0, t |-> 0, cfg |-> 0, smp |-> 0]
  /\ threadTimes = [p \in Threads |-> 0]
  /\ clockOffset = [t \in Threads |-> 0]
  /\ reg = [Tstart |-> 0, Tother |-> 0, Tend |-> 0, sum2 |-> 0, n |-> 0]
  /\ hist = << >>
  /\ NoTimes
  /\ op \in Ops
  /\ modified \in BOOLEAN
  /\ opTime \in LatValues
  /\ allocateInT0 \in BOOLEAN
  /\ chan = [c \in {"activeToPassive", "passiveToActive"} |-> IdleChan]
  /\ pc = [t \in Threads |-> "P_enter"]

SpecPlacementAny == InitPlacementAny /\ [][NextPlacement]_vars

\* C26: for every source index of zero or more, from >= nThreads included,
\* measurePlacementFrom goes on until it returns or the process is ended: in
\* every state before that some thread can take a step, so no thread waits
\* forever on a channel.
C26_PlacementNeverStuck ==
  proto = "placement" => (Returned \/ mpc = "exited" \/ ENABLED NextPlacement)

(***************************************************************************)
(* The rows of a placement run from one source.                            *)
(***************************************************************************)
\* main has run the placement test from the one source argv[2] names, a
\* thread of the team, and has returned 0.
SingleSourcePlacement ==
  /\ proto = "main"
  /\ argv.argc >= 2
  /\ argv.test = "P"
  /\ (IF argv.argc > 2 THEN argv.n ELSE 0) \in 0 .. nThreads - 1
  /\ mpc = "exited"
  /\ status = 0

\* C27: a placement run from one source prints one block of rows, the
\* statistics of the placements measured: one row for every thread index but
\* the source's, labelled with that index, whichever thread the source is.
C27_SingleSourceRows ==
  SingleSourcePlacement =>
    /\ Cardinality(RowBlocks(stdout)) = 1
    /\ \A i \in RowBlocks(stdout) :
         stdout[i].rows = Ascending((0 .. nThreads - 1) \ {from})

=============================================================================
